---- MODULE Spec2Model ----
(***************************************************************************)
(* Model of the madari-gtk core: the Stremio addon registry               *)
(* (stremio_addon_service.cpp, stremio_parser.cpp, stremio_client.cpp),   *)
(* the capability resolver, the fan-out aggregator, the Trakt scrobble    *)
(* lifecycle driven by the player events of window.cpp, the watch         *)
(* history store (watch_history.cpp), the merge of Trakt playback into    *)
(* the Continue Watching section, parse_stremio_id, the Trakt device      *)
(* authorization dialog (trakt_service.cpp, preferences_window.cpp) and   *)
(* the search view of window.cpp.                                         *)
(*                                                                         *)
(* Strings are TLA+ strings; strings whose prefixes matter (content ids   *)
(* and idPrefixes) are tuples of characters.  std::optional<T> is a       *)
(* sequence of length 0 (nullopt) or 1.  A JSON node is a record          *)
(* [t |-> tag, v |-> value]; a JSON object's value is a function from     *)
(* member names to nodes.                                                  *)
(***************************************************************************)
EXTENDS Integers, Sequences, FiniteSets, TLC

VARIABLES
    \* ---- AddonService (stremio_addon_service.hpp) ----
    installed_addons,   \* std::vector<InstalledAddon>
    disk,               \* content of addons.json: NoFile or a JSON node
    fetches,            \* manifest requests in flight (install_addon)
    regLog,             \* what the last registry handler did, in order
    change_callbacks,   \* std::vector<AddonsChangedCallback>, one id per registration
    \* ---- get_addons_for_resource query ----
    query,              \* the last (resource, type, id) asked, or NoQuery
    resolved,           \* the vector it returned
    \* ---- fan-out query (fetch_all_streams / _subtitles / search) ----
    fanKind,            \* which query is running, or "none"
    fanN,               \* number of matching providers
    fanState,           \* per provider: "inflight" or "responded"
    fanOutcome,         \* per provider: the response it gave, or "none"
    pending,            \* the shared counter *pending
    fanLog,             \* callbacks fired so far by this query, in order
    \* ---- MadariWindow playback / scrobble state (window.cpp) ----
    now,                \* g_get_real_time() / 1000000: wall clock, whole seconds
    authenticated,      \* trakt->is_authenticated() && get_config().sync_progress
    current_meta_id,    \* NULL or the meta id
    current_meta_type,  \* NULL or "movie" / "series"
    current_video_id,   \* NULL or a video id
    loading,            \* a loadfile command is on its way to mpv
    switching,          \* play_episode_by_index waits for a stream to play
    loaded_video,       \* NULL or the video whose stream mpv was last told to load
    player_is_playing,
    player_position,
    player_duration,
    scrobble_started,
    last_scrobble_time,
    history_needs_save,
    history_save_timeout_id,
    lastEvent,          \* the handler run by the last step, with what it saw
    lastSent,           \* scrobble requests sent by the last step
    lastWrite,          \* watch-history entries written by the last step
    sentAt,             \* per action: when its last request was sent, or Never
    prevPause,          \* the last two pause triggers of this session, newest last
    \* ---- WatchHistoryService (watch_history.hpp) ----
    history_,           \* std::vector<WatchHistoryEntry>
    history_disk,       \* content of watch_history.json: NoFile or a JSON node
    history_callbacks,  \* std::vector<HistoryChangedCallback>, one id per registration
    histLog,            \* what the last history operation did, in order
    \* ---- the continue-watching section (window.cpp) ----
    section,            \* "none", "null" (nothing to show), "waiting" or "shown"
    local_items,        \* the "local-items" data of the section
    merged,             \* the entries handed to the items box, in order
    lastMerge,          \* the last merge: local entries, converted remote ones, those added
    \* ---- a call of Trakt::parse_stremio_id ----
    id_segments,        \* the segments the identifier was joined from
    stremio_id,         \* the argument, a string of characters
    content_ids,        \* the ContentIds returned, or NotParsed
    \* ---- TraktService and the device-authorization dialog ----
    config_,            \* TraktConfig: tokens, expiry, enabled, username
    trakt_disk,         \* content of the Trakt config file
    trakt_requests,           \* Trakt trakt_requests in flight, oldest first
    trakt_auth_dialog,  \* "none", "open" or "closed"
    trakt_device_code,  \* NULL or the device code polled for
    trakt_poll_timeout_id, \* 0 or the id of the polling timer
    close_pending,      \* the 1500 ms close timeout is scheduled
    authLog,            \* what the last Trakt handler did, in order
    closedConfig,       \* config_ when the dialog was last closed, or NoFile
    \* ---- search in the window (window.cpp) ----
    current_search_query, \* NULL or the query text
    is_searching,
    search_seq,         \* number of perform_search calls so far
    searches,           \* searches with providers still to respond
    view                \* what catalogs_box shows

regVars == <<installed_addons, disk, fetches, regLog, change_callbacks>>
resVars == <<query, resolved>>
fanVars == <<fanKind, fanN, fanState, fanOutcome, pending, fanLog>>
scrVars == <<now, authenticated, current_meta_id, current_meta_type,
              current_video_id, loading, switching, loaded_video, player_is_playing,
              player_position, player_duration, scrobble_started,
              last_scrobble_time, history_needs_save, history_save_timeout_id,
              lastEvent, lastSent, lastWrite, sentAt, prevPause>>
hisVars == <<history_, history_disk, history_callbacks, histLog>>
mrgVars == <<section, local_items, merged, lastMerge>>
idVars == <<id_segments, stremio_id, content_ids>>
trkVars == <<config_, trakt_disk, trakt_requests, trakt_auth_dialog, trakt_device_code,
              trakt_poll_timeout_id, close_pending, authLog, closedConfig>>
srchVars == <<current_search_query, is_searching, search_seq, searches, view>>
extVars == <<mrgVars, idVars, trkVars, srchVars>>
vars == <<regVars, resVars, fanVars, scrVars, hisVars, extVars>>

(***************************************************************************)
(* Generic helpers                                                         *)
(***************************************************************************)
None == <<>>
Some(x) == <<x>>

Contains(s, x) == \E i \in 1..Len(s) : s[i] = x

\* vector::erase(begin() + i), i counted from 1
RemoveAt(list, i) == SubSeq(list, 1, i - 1) \o SubSeq(list, i + 1, Len(list))

(***************************************************************************)
(* JSON nodes (json-glib)                                                  *)
(***************************************************************************)
JStr(s) == [t |-> "str",  v |-> s]
JBool(b) == [t |-> "bool", v |-> b]
JInt(i) == [t |-> "int",  v |-> i]
JDouble(d) == [t |-> "double", v |-> d]
JArr(a) == [t |-> "arr",  v |-> a]
JObj(o) == [t |-> "obj",  v |-> o]
EmptyMembers == [x \in {} |-> JStr("")]

IsValue(n) == n.t \in {"str", "bool", "int"}
HasMember(obj, member) == member \in DOMAIN obj


(***************************************************************************)
(* Parser (stremio_parser.cpp)                                             *)
(***************************************************************************)
get_string(obj, member) ==
    IF ~HasMember(obj, member) THEN ""
    ELSE IF ~IsValue(obj[member]) THEN ""
    ELSE IF obj[member].t = "str" THEN obj[member].v ELSE ""

get_optional_string(obj, member) ==
    IF ~HasMember(obj, member) THEN None
    ELSE IF ~IsValue(obj[member]) THEN None
    ELSE IF obj[member].t = "str" THEN Some(obj[member].v) ELSE None

get_optional_bool(obj, member) ==
    IF ~HasMember(obj, member) THEN None
    ELSE IF ~IsValue(obj[member]) THEN None
    ELSE IF obj[member].t = "bool" THEN Some(obj[member].v) ELSE Some(FALSE)

\* json_object_get_boolean_member on a member known to exist
get_boolean_member(obj, member) ==
    IF obj[member].t = "bool" THEN obj[member].v ELSE FALSE

get_string_array(obj, member) ==
    IF ~HasMember(obj, member) THEN <<>>
    ELSE IF obj[member].t # "arr" THEN <<>>
    ELSE LET strs == SelectSeq(obj[member].v, LAMBDA e : e.t = "str")
         IN  [i \in 1..Len(strs) |-> strs[i].v]

\* push_back(name) unless std::find already finds it
AddUnique(list, name) == IF Contains(list, name) THEN list ELSE Append(list, name)

RECURSIVE MergeExtra(_, _)
\* the loop over the "extra" array of parse_catalog_definition
MergeExtra(cat, items) ==
    IF items = <<>> THEN cat
    ELSE LET item == Head(items)
             name == IF item.t = "obj" THEN get_string(item.v, "name") ELSE ""
             is_required == IF item.t = "obj" /\ HasMember(item.v, "isRequired")
                            THEN get_boolean_member(item.v, "isRequired")
                            ELSE FALSE
             next == IF item.t # "obj" \/ name = "" THEN cat
                     ELSE IF is_required
                          THEN [cat EXCEPT !.extra_required = AddUnique(@, name)]
                          ELSE [cat EXCEPT !.extra_supported = AddUnique(@, name)]
         IN  MergeExtra(next, Tail(items))

parse_catalog_definition(obj) ==
    LET cat == [type            |-> get_string(obj, "type"),
                id              |-> get_string(obj, "id"),
                name            |-> get_string(obj, "name"),
                genres          |-> get_string_array(obj, "genres"),
                extra_supported |-> get_string_array(obj, "extraSupported"),
                extra_required  |-> get_string_array(obj, "extraRequired")]
    IN  IF HasMember(obj, "extra") /\ obj["extra"].t = "arr"
        THEN MergeExtra(cat, obj["extra"].v)
        ELSE cat

parse_resource_definition(node) ==
    IF IsValue(node)
    THEN [name        |-> IF node.t = "str" THEN node.v ELSE "",
          types       |-> <<>>,
          id_prefixes |-> <<>>]
    ELSE IF node.t = "obj"
    THEN [name        |-> get_string(node.v, "name"),
          types       |-> get_string_array(node.v, "types"),
          id_prefixes |-> get_string_array(node.v, "idPrefixes")]
    ELSE [name |-> "", types |-> <<>>, id_prefixes |-> <<>>]

\* Manifest{} as default-constructed (stremio_types.hpp)
DefaultManifest ==
    [id |-> "", version |-> "", name |-> "", description |-> "",
     logo |-> None, background |-> None,
     types |-> <<>>, resources |-> <<>>, catalogs |-> <<>>, id_prefixes |-> <<>>,
     adult |-> FALSE, configurable |-> FALSE, config_url |-> None,
     transport_url |-> ""]

\* std::optional<Manifest>: None when the text is no JSON or its root no object
parse_manifest(root, transport_url) ==
    IF root.t # "obj" THEN None
    ELSE LET obj   == root.v
             hints == IF HasMember(obj, "behaviorHints") /\ obj["behaviorHints"].t = "obj"
                      THEN obj["behaviorHints"].v ELSE EmptyMembers
             adult == get_optional_bool(hints, "adult")
             conf  == get_optional_bool(hints, "configurable")
             res   == IF HasMember(obj, "resources") /\ obj["resources"].t = "arr"
                      THEN obj["resources"].v ELSE <<>>
             cats  == IF HasMember(obj, "catalogs") /\ obj["catalogs"].t = "arr"
                      THEN SelectSeq(obj["catalogs"].v, LAMBDA c : c.t = "obj")
                      ELSE <<>>
         IN  Some([id            |-> get_string(obj, "id"),
                   version       |-> get_string(obj, "version"),
                   name          |-> get_string(obj, "name"),
                   description   |-> get_string(obj, "description"),
                   logo          |-> get_optional_string(obj, "logo"),
                   background    |-> get_optional_string(obj, "background"),
                   types         |-> get_string_array(obj, "types"),
                   id_prefixes   |-> get_string_array(obj, "idPrefixes"),
                   transport_url |-> transport_url,
                   adult         |-> IF adult # None THEN adult[1] ELSE FALSE,
                   configurable  |-> IF conf # None THEN conf[1] ELSE FALSE,
                   config_url    |-> get_optional_string(hints, "configurationURL"),
                   resources     |-> [i \in 1..Len(res) |-> parse_resource_definition(res[i])],
                   catalogs      |-> [i \in 1..Len(cats) |-> parse_catalog_definition(cats[i].v)]])


(***************************************************************************)
(* AddonService::save / load (stremio_addon_service.cpp)                   *)
(***************************************************************************)
NoFile == [t |-> "nofile"]

StrArray(list) == JArr([i \in 1..Len(list) |-> JStr(list[i])])

\* one element of the "resources" array as save() writes it
SaveResource(res) ==
    IF res.types = <<>> /\ res.id_prefixes = <<>>
    THEN JStr(res.name)
    ELSE JObj([name |-> JStr(res.name)]
              @@ (IF res.types # <<>>
                  THEN [types |-> StrArray(res.types)] ELSE EmptyMembers)
              @@ (IF res.id_prefixes # <<>>
                  THEN [idPrefixes |-> StrArray(res.id_prefixes)] ELSE EmptyMembers))

\* one element of the "catalogs" array as save() writes it
SaveCatalog(cat) ==
    JObj([type |-> JStr(cat.type), id |-> JStr(cat.id), name |-> JStr(cat.name)])

SaveManifest(m) ==
    JObj([id          |-> JStr(m.id),
          version     |-> JStr(m.version),
          name        |-> JStr(m.name),
          description |-> JStr(m.description),
          types       |-> StrArray(m.types),
          idPrefixes  |-> StrArray(m.id_prefixes),
          resources   |-> JArr([i \in 1..Len(m.resources) |-> SaveResource(m.resources[i])]),
          catalogs    |-> JArr([i \in 1..Len(m.catalogs) |-> SaveCatalog(m.catalogs[i])])]
         @@ (IF m.logo # None THEN [logo |-> JStr(m.logo[1])] ELSE EmptyMembers)
         @@ (IF m.background # None
             THEN [background |-> JStr(m.background[1])] ELSE EmptyMembers))

SaveAddon(addon) ==
    JObj([transport_url |-> JStr(addon.manifest.transport_url),
          manifest      |-> SaveManifest(addon.manifest),
          enabled       |-> JBool(addon.enabled),
          order         |-> JInt(addon.order),
          installed_at  |-> JStr(addon.installed_at)])

\* the document save() writes to storage_path_
SaveDoc(addons) ==
    JObj([version |-> JInt(1),
          addons  |-> JArr([i \in 1..Len(addons) |-> SaveAddon(addons[i])])])

\* InstalledAddon{} as default-constructed (stremio_addon_service.hpp)
DefaultAddon ==
    [manifest |-> DefaultManifest, enabled |-> TRUE, order |-> 0, installed_at |-> ""]

\* the body of load()'s loop for one element: None when the element is skipped
LoadAddon(node) ==
    IF node.t # "obj" THEN None
    ELSE IF ~HasMember(node.v, "manifest") THEN None
    ELSE LET obj == node.v
             url == IF HasMember(obj, "transport_url") /\ obj["transport_url"].t = "str"
                    THEN obj["transport_url"].v ELSE ""
             man == IF obj["manifest"].t = "obj"
                    THEN parse_manifest(obj["manifest"], url)
                    ELSE Some(DefaultManifest)
         IN  IF man = None THEN None
             ELSE Some([manifest     |-> man[1],
                        enabled      |-> IF HasMember(obj, "enabled")
                                         THEN get_boolean_member(obj, "enabled")
                                         ELSE DefaultAddon.enabled,
                        order        |-> IF HasMember(obj, "order")
                                         THEN (IF obj["order"].t = "int"
                                               THEN obj["order"].v ELSE 0)
                                         ELSE DefaultAddon.order,
                        installed_at |-> IF HasMember(obj, "installed_at")
                                            /\ obj["installed_at"].t = "str"
                                         THEN obj["installed_at"].v
                                         ELSE DefaultAddon.installed_at])

RECURSIVE InsertByOrder(_, _)
InsertByOrder(sorted, addon) ==
    IF sorted = <<>> THEN <<addon>>
    ELSE IF addon.order < Head(sorted).order THEN <<addon>> \o sorted
    ELSE <<Head(sorted)>> \o InsertByOrder(Tail(sorted), addon)

RECURSIVE SortByOrder(_)
\* std::sort by order ascending (the orders save() wrote are pairwise distinct)
SortByOrder(addons) ==
    IF addons = <<>> THEN <<>>
    ELSE InsertByOrder(SortByOrder(SubSeq(addons, 1, Len(addons) - 1)),
                       addons[Len(addons)])

RECURSIVE LoadElements(_)
LoadElements(nodes) ==
    IF nodes = <<>> THEN <<>>
    ELSE LoadAddon(Head(nodes)) \o LoadElements(Tail(nodes))

\* the vector load() leaves in installed_addons_ for a given file content
LoadDoc(file) ==
    IF file.t # "obj" THEN <<>>
    ELSE IF ~HasMember(file.v, "addons") THEN <<>>
    ELSE IF file.v["addons"].t # "arr" THEN <<>>
    ELSE SortByOrder(LoadElements(file.v["addons"].v))


(***************************************************************************)
(* Inputs of the registry: URLs the user types, bodies the servers return  *)
(***************************************************************************)
MaxInFlight == 2
MaxObservers == 2

\* a URL: host, number of trailing slashes, whether it holds "/manifest.json"
Urls ==
    { [host |-> "h1",  slash |-> 1, suffix |-> FALSE],
      [host |-> "h1",  slash |-> 0, suffix |-> TRUE],
      [host |-> "bad", slash |-> 0, suffix |-> FALSE] }

\* soup_message_new returns NULL for a URL it cannot parse
ValidUrl(u) == u.host # "bad"

Timestamps == {"2026-01-01T00:00:00Z"}

Chars_tt == <<"t", "t">>
Chars_kitsu == <<"k", ":">>

BodyA1 ==
    JObj([id          |-> JStr("a"),
          version     |-> JStr("1.0"),
          name        |-> JStr("Addon A"),
          description |-> JStr("first"),
          types       |-> StrArray(<<"movie", "series">>),
          resources   |-> JArr(<<JStr("catalog"), JStr("stream")>>),
          catalogs    |-> JArr(<<JObj([type  |-> JStr("movie"),
                                       id    |-> JStr("top"),
                                       name  |-> JStr("Top"),
                                       extra |-> JArr(<<JObj([name |-> JStr("search")]),
                                                        JObj([name |-> JStr("genre"),
                                                              isRequired |-> JBool(TRUE)])>>)])>>)])

BodyA2 ==
    JObj([id            |-> JStr("a"),
          version       |-> JStr("2.0"),
          name          |-> JStr("Addon A"),
          description   |-> JStr("second"),
          logo          |-> JStr("logo.png"),
          idPrefixes    |-> StrArray(<<Chars_tt>>),
          behaviorHints |-> JObj([adult |-> JBool(TRUE)]),
          resources     |-> JArr(<<JObj([name  |-> JStr("stream"),
                                         types |-> StrArray(<<"series">>)])>>)])

BodyB1 ==
    JObj([id          |-> JStr("b"),
          version     |-> JStr("0.1"),
          name        |-> JStr("Addon B"),
          description |-> JStr(""),
          background  |-> JStr("bg.png"),
          types       |-> StrArray(<<"movie">>),
          resources   |-> JArr(<<JStr("catalog"),
                                 JObj([name       |-> JStr("subtitles"),
                                       idPrefixes |-> StrArray(<<Chars_kitsu>>)])>>),
          catalogs    |-> JArr(<<JObj([type           |-> JStr("series"),
                                       id             |-> JStr("new"),
                                       name           |-> JStr("New"),
                                       genres         |-> StrArray(<<"drama">>),
                                       extraSupported |-> StrArray(<<"search", "skip">>),
                                       extraRequired  |-> StrArray(<<"search">>)])>>)])

BodyC1 ==
    JObj([id          |-> JStr("c"),
          version     |-> JStr("3.1"),
          name        |-> JStr("Addon C"),
          description |-> JStr("third"),
          types       |-> StrArray(<<"series">>),
          resources   |-> JArr(<<JStr("meta")>>)])

\* a body json_parser_load_from_data accepts but whose root is no object
BodyNotObject == JArr(<<>>)

BodyPool == {BodyA1, BodyA2, BodyB1, BodyNotObject}

\* what make_request hands to its callback: (body, error)
Responses ==
    { [body |-> b, error |-> ""] : b \in BodyPool }
    \cup { [body |-> NoFile, error |-> "HTTP error: 404"] }

AddonIds == {"a", "b", "zz"}

(***************************************************************************)
(* Client::fetch_manifest (stremio_client.cpp)                             *)
(***************************************************************************)
\* get_base_url: strip a trailing "/manifest.json", then trailing slashes
get_base_url(u) == [host |-> u.host, slash |-> 0, suffix |-> FALSE]

\* the URL fetch_manifest requests
ManifestUrl(u) ==
    IF u.suffix THEN u
    ELSE [get_base_url(u) EXCEPT !.suffix = TRUE]

FetchManifestResultDefaults(manifest_url, resp) ==
    IF resp.error # ""
    THEN [manifest |-> None, error |-> resp.error]
    ELSE LET m == parse_manifest(resp.body, manifest_url)
         IN  IF m = None
             THEN [manifest |-> Some(DefaultManifest), error |-> ""]
             ELSE [manifest |-> m, error |-> ""]

\* the (manifest, error) pair fetch_manifest's continuation gives its callback
FetchManifestResult(manifest_url, resp) ==
    IF resp.error # ""
    THEN [manifest |-> None, error |-> resp.error]
    ELSE LET m == parse_manifest(resp.body, manifest_url)
         IN  IF m = None
             THEN [manifest |-> None, error |-> "Failed to parse manifest"]
             ELSE [manifest |-> m, error |-> ""]

(***************************************************************************)
(* AddonService operations                                                 *)
(***************************************************************************)
is_installedNever(addon_id) == FALSE

is_installed(addon_id) ==
    \E i \in 1..Len(installed_addons) : installed_addons[i].manifest.id = addon_id

\* index of the first addon with this id, 0 when there is none (std::find_if)
FindAddon(addons, addon_id) ==
    IF \E i \in 1..Len(addons) : addons[i].manifest.id = addon_id
    THEN CHOOSE i \in 1..Len(addons) :
            /\ addons[i].manifest.id = addon_id
            /\ \A j \in 1..(i - 1) : addons[j].manifest.id # addon_id
    ELSE 0

RenumberKeep(addons) == addons

\* the loop "installed_addons_[i].order = i"
Renumber(addons) == [i \in 1..Len(addons) |-> [addons[i] EXCEPT !.order = i - 1]]

\* entries of regLog: what one operation did, in the order it did it
Ev(name) == [ev |-> name]
Callback(success, error) == [ev |-> "callback", success |-> success, error |-> error]
Return(op, value) == [ev |-> "return", op |-> op, value |-> value]

\* one registered observer being called
Invoked(cb) == [ev |-> "observer", id |-> cb]

notify_changeFirstOnly ==
    <<Ev("notify")>> \o [k \in 1..(IF change_callbacks = <<>> THEN 0 ELSE 1) |->
                            Invoked(change_callbacks[k])]

\* notify_change: entered, then every registered callback in registration order
notify_change ==
    <<Ev("notify")>> \o [k \in 1..Len(change_callbacks) |-> Invoked(change_callbacks[k])]

\* on_addons_changed: one more registration
OnAddonsChanged ==
    /\ Len(change_callbacks) < MaxObservers
    /\ change_callbacks' = Append(change_callbacks, Len(change_callbacks) + 1)
    /\ regLog' = <<>>
    /\ UNCHANGED <<installed_addons, disk, fetches>>
    /\ UNCHANGED <<resVars, fanVars, scrVars, hisVars, extVars>>

\* the ids in a list of addons
IdsOf(addons) == {addons[i].manifest.id : i \in 1..Len(addons)}

\* the branch the install continuation takes; raced tells whether the id was
\* still absent when the request was issued
Replaced(raced) == [ev |-> "replace", raced |-> raced]

\* the list after the install continuation ran with a parsed manifest
InstallInto(addons, manifest, ts) ==
    IF is_installed(manifest.id)
    THEN [addons EXCEPT ![FindAddon(addons, manifest.id)].manifest = manifest]
    ELSE Append(addons, [manifest     |-> manifest,
                         enabled      |-> TRUE,
                         order        |-> Len(addons),
                         installed_at |-> ts])

\* install_addon up to the point where the request is on its way
InstallAddon(url) ==
    /\ Len(fetches) < MaxInFlight
    /\ IF ValidUrl(ManifestUrl(url))
       THEN /\ fetches' = Append(fetches, [url   |-> ManifestUrl(url),
                                            known |-> IdsOf(installed_addons)])
            /\ regLog' = <<>>
       ELSE /\ fetches' = fetches
            /\ regLog' = <<Callback(FALSE, "Invalid URL")>>
    /\ UNCHANGED <<installed_addons, disk, change_callbacks>>
    /\ UNCHANGED <<resVars, fanVars, scrVars, hisVars, extVars>>

\* the continuation of install_addon, run when request i completes
FetchManifestDone(i, resp, ts) ==
    /\ i \in 1..Len(fetches)
    /\ LET r == FetchManifestResult(fetches[i].url, resp)
       IN  IF r.manifest = None
           THEN /\ regLog' = <<Callback(FALSE, IF r.error = ""
                                                THEN "Failed to fetch manifest"
                                                ELSE r.error)>>
                /\ UNCHANGED <<installed_addons, disk>>
           ELSE /\ installed_addons' = InstallInto(installed_addons, r.manifest[1], ts)
                /\ disk' = SaveDoc(installed_addons')
                /\ regLog' = <<IF is_installed(r.manifest[1].id)
                                THEN Replaced(r.manifest[1].id \notin fetches[i].known)
                                ELSE Ev("push_back"), Ev("save")>>
                              \o notify_change \o <<Callback(TRUE, "")>>
    /\ fetches' = SubSeq(fetches, 1, i - 1) \o SubSeq(fetches, i + 1, Len(fetches))
    /\ UNCHANGED change_callbacks
    /\ UNCHANGED <<resVars, fanVars, scrVars, hisVars, extVars>>

UninstallAddon(addon_id) ==
    /\ LET it == FindAddon(installed_addons, addon_id)
       IN  IF it = 0
           THEN /\ regLog' = <<Return("uninstall_addon", FALSE)>>
                /\ UNCHANGED <<installed_addons, disk>>
           ELSE /\ installed_addons' =
                      Renumber(SubSeq(installed_addons, 1, it - 1)
                               \o SubSeq(installed_addons, it + 1, Len(installed_addons)))
                /\ disk' = SaveDoc(installed_addons')
                /\ regLog' = <<Ev("save")>> \o notify_change \o <<Return("uninstall_addon", TRUE)>>
    /\ UNCHANGED <<fetches, change_callbacks>>
    /\ UNCHANGED <<resVars, fanVars, scrVars, hisVars, extVars>>

SetAddonEnabled(addon_id, enabled) ==
    /\ LET it == FindAddon(installed_addons, addon_id)
       IN  IF it = 0
           THEN /\ regLog' = <<Return("set_addon_enabled", FALSE)>>
                /\ UNCHANGED <<installed_addons, disk>>
           ELSE /\ installed_addons' = [installed_addons EXCEPT ![it].enabled = enabled]
                /\ disk' = SaveDoc(installed_addons')
                /\ regLog' = <<Ev("save")>> \o notify_change \o <<Return("set_addon_enabled", TRUE)>>
    /\ UNCHANGED <<fetches, change_callbacks>>
    /\ UNCHANGED <<resVars, fanVars, scrVars, hisVars, extVars>>

MoveTargetWraps(index, direction, size) ==
    IF direction < 0 THEN (IF index > 1 THEN index - 1 ELSE size)
    ELSE IF direction > 0 THEN (IF index < size THEN index + 1 ELSE 1)
    ELSE 0

\* the index move_addon swaps with, 0 when it cannot move
MoveTarget(index, direction, size) ==
    IF direction < 0 /\ index > 1 THEN index - 1
    ELSE IF direction > 0 /\ index < size THEN index + 1
    ELSE 0

MoveAddon(addon_id, direction) ==
    /\ LET it        == FindAddon(installed_addons, addon_id)
           new_index == IF it = 0 THEN 0
                        ELSE MoveTarget(it, direction, Len(installed_addons))
       IN  IF it = 0 \/ new_index = 0
           THEN /\ regLog' = <<Return("move_addon", FALSE)>>
                /\ UNCHANGED <<installed_addons, disk>>
           ELSE /\ installed_addons' =
                      Renumber([installed_addons EXCEPT
                                   ![it] = installed_addons[new_index],
                                   ![new_index] = installed_addons[it]])
                /\ disk' = SaveDoc(installed_addons')
                /\ regLog' = <<Ev("save")>> \o notify_change \o <<Return("move_addon", TRUE)>>
    /\ UNCHANGED <<fetches, change_callbacks>>
    /\ UNCHANGED <<resVars, fanVars, scrVars, hisVars, extVars>>

\* application start: a fresh AddonService runs load()
Load ==
    /\ installed_addons' = LoadDoc(disk)
    /\ fetches' = <<>>
    /\ regLog' = <<Ev("load")>>
    /\ change_callbacks' = <<>>
    /\ UNCHANGED disk
    /\ UNCHANGED <<resVars, fanVars, scrVars, hisVars, extVars>>


(***************************************************************************)
(* AddonService::get_addons_for_resource                                   *)
(***************************************************************************)
\* id.rfind(prefix, 0) == 0
StartsWith(id, prefix) ==
    /\ Len(prefix) <= Len(id)
    /\ SubSeq(id, 1, Len(prefix)) = prefix

AnyPrefix(prefixes, id) == \E i \in 1..Len(prefixes) : StartsWith(id, prefixes[i])

RECURSIVE ResourceLoop(_, _, _, _, _, _, _)
\* the inner loop over manifest.resources, entered with the current values of
\* type_matches and id_matches; TRUE iff the addon is pushed to the result
ResourceLoop(manifest, resources, resource, type, id, type_matches, id_matches) ==
    IF resources = <<>> THEN FALSE
    ELSE LET res == Head(resources)
             tm  == IF res.types # <<>> THEN Contains(res.types, type)
                    ELSE IF manifest.types # <<>> THEN Contains(manifest.types, type)
                    ELSE TRUE
             im  == IF id # <<>>
                    THEN (IF res.id_prefixes # <<>>
                          THEN AnyPrefix(res.id_prefixes, id)
                          ELSE IF manifest.id_prefixes # <<>>
                          THEN AnyPrefix(manifest.id_prefixes, id)
                          ELSE id_matches)
                    ELSE id_matches
         IN  IF res.name # resource
             THEN ResourceLoop(manifest, Tail(resources), resource, type, id,
                               type_matches, id_matches)
             ELSE IF tm /\ im THEN TRUE
             ELSE ResourceLoop(manifest, Tail(resources), resource, type, id, tm, im)

\* the body of the outer loop for one addon
AddonServes(addon, resource, type, id) ==
    /\ addon.enabled
    /\ ResourceLoop(addon.manifest, addon.manifest.resources, resource, type, id,
                    addon.manifest.types = <<>>,
                    addon.manifest.id_prefixes = <<>> \/ id = <<>>)

get_addons_for_resource(addons, resource, type, id) ==
    SelectSeq(addons, LAMBDA a : AddonServes(a, resource, type, id))

(***************************************************************************)
(* AddonService::get_searchable_catalogs                                   *)
(***************************************************************************)
\* Manifest::has_resource
has_resource(manifest, resource) ==
    \E k \in 1..Len(manifest.resources) : manifest.resources[k].name = resource

\* the inner loop of get_searchable_catalogs for one addon
SearchableOf(addon) ==
    LET cats == SelectSeq(addon.manifest.catalogs,
                          LAMBDA c : Contains(c.extra_supported, "search"))
    IN  [k \in 1..Len(cats) |-> <<addon.manifest, cats[k]>>]

RECURSIVE get_searchable_catalogs(_)
get_searchable_catalogs(addons) ==
    IF addons = <<>> THEN <<>>
    ELSE (IF ~Head(addons).enabled \/ ~has_resource(Head(addons).manifest, "catalog")
          THEN <<>>
          ELSE SearchableOf(Head(addons)))
         \o get_searchable_catalogs(Tail(addons))

(***************************************************************************)
(* Inputs of the resolver: a registry of two addons and a query            *)
(***************************************************************************)
MaxResDefs == 2

NoQuery == [resource |-> "", type |-> "", id |-> <<>>]

ResTypeLists == {<<>>, <<"series">>}
ResPrefixLists == {<<>>, <<Chars_tt>>}
ResDefs == [name : {"stream"}, types : ResTypeLists,
                   id_prefixes : ResPrefixLists]
                  \cup {[name |-> "meta", types |-> <<>>, id_prefixes |-> <<>>]}
ResDefLists == UNION {[1..n -> ResDefs] : n \in 0..MaxResDefs}

ResAddon(id, enabled, order, types, prefixes, resources) ==
    [manifest     |-> [DefaultManifest EXCEPT !.id = id, !.types = types,
                                              !.id_prefixes = prefixes,
                                              !.resources = resources],
     enabled      |-> enabled,
     order        |-> order,
     installed_at |-> "2026-01-01T00:00:00Z"]

\* the second addon declares "stream" with no restriction at either level
ResOther(order) ==
    ResAddon("b", TRUE, order, <<>>, <<>>,
             <<[name |-> "stream", types |-> <<>>, id_prefixes |-> <<>>]>>)

ResRegistries ==
    UNION { { <<ResAddon("a", e, 0, ts, ps, rs), ResOther(1)>>,
              <<ResOther(0), ResAddon("a", e, 1, ts, ps, rs)>> }
            : e \in BOOLEAN, ts \in ResTypeLists, ps \in ResPrefixLists,
              rs \in ResDefLists }

QueryResources == {"stream", "meta"}
QueryTypes == {"movie", "series"}
QueryIds == {<<>>, <<"t", "t", "1">>, <<"k", ":", "1">>}

\* a caller asks which addons serve (resource, type, id)
Query(resource, type, id) ==
    /\ query' = [resource |-> resource, type |-> type, id |-> id]
    /\ resolved' = get_addons_for_resource(installed_addons, resource, type, id)
    /\ UNCHANGED <<regVars, fanVars, scrVars, hisVars, extVars>>


(***************************************************************************)
(* Fan-out: fetch_all_streams, fetch_all_subtitles, search                 *)
(***************************************************************************)
MaxProviders == 3

\* what a Client::fetch_* continuation hands over: (optional response, error);
\* the response is the vector of streams / subtitles / metas it parsed
FanResponses ==
    { [response |-> Some(<<"item">>), error |-> ""],
      [response |-> Some(<<>>),       error |-> ""],
      [response |-> None,             error |-> "Request failed: timed out"],
      [response |-> None,             error |-> "HTTP error: 500"],
      [response |-> None,             error |-> "Failed to parse response"] }

\* make_request's synchronous failure for a URL soup_message_new rejects
InvalidUrlResponse == [response |-> None, error |-> "Invalid URL"]

ItemEvent(i) == [ev |-> "item", provider |-> i]
DoneEvent == [ev |-> "done", provider |-> 0]

\* the initial value of the shared counter
PendingInit(n) == n

\* the per-provider lambda: st is [pending, log, state, outcome]
ProviderCallbackSkipOnError(st, i, resp) ==
    IF resp.response = None
    THEN [st EXCEPT !.state[i] = "responded", !.outcome[i] = resp]
    ELSE LET p == st.pending - 1
         IN  [pending |-> p,
              log     |-> (IF resp.response[1] # <<>>
                           THEN Append(st.log, ItemEvent(i)) ELSE st.log)
                          \o (IF p = 0 THEN <<DoneEvent>> ELSE <<>>),
              state   |-> [st.state EXCEPT ![i] = "responded"],
              outcome |-> [st.outcome EXCEPT ![i] = resp]]

ProviderCallbackAnyResponse(st, i, resp) ==
    LET p == st.pending - 1
    IN  [pending |-> p,
         log     |-> (IF resp.response # None
                      THEN Append(st.log, ItemEvent(i)) ELSE st.log)
                     \o (IF p = 0 THEN <<DoneEvent>> ELSE <<>>),
         state   |-> [st.state EXCEPT ![i] = "responded"],
         outcome |-> [st.outcome EXCEPT ![i] = resp]]

ProviderCallbackAbortOnError(st, i, resp) ==
    IF resp.response = None
    THEN [pending |-> 0,
          log     |-> Append(st.log, DoneEvent),
          state   |-> [st.state EXCEPT ![i] = "responded"],
          outcome |-> [st.outcome EXCEPT ![i] = resp]]
    ELSE LET p == st.pending - 1
         IN  [pending |-> p,
              log     |-> (IF resp.response[1] # <<>>
                           THEN Append(st.log, ItemEvent(i)) ELSE st.log)
                          \o (IF p = 0 THEN <<DoneEvent>> ELSE <<>>),
              state   |-> [st.state EXCEPT ![i] = "responded"],
              outcome |-> [st.outcome EXCEPT ![i] = resp]]

ProviderCallback(st, i, resp) ==
    LET p == st.pending - 1
    IN  [pending |-> p,
         log     |-> (IF resp.response # None /\ resp.response[1] # <<>>
                      THEN Append(st.log, ItemEvent(i)) ELSE st.log)
                     \o (IF p = 0 THEN <<DoneEvent>> ELSE <<>>),
         state   |-> [st.state EXCEPT ![i] = "responded"],
         outcome |-> [st.outcome EXCEPT ![i] = resp]]

RECURSIVE IssueLoop(_, _, _, _)
\* the loop that issues one request per provider, from provider i on; a
\* provider in `invalid` fails inside the call, before the next is issued
IssueLoop(st, i, n, invalid) ==
    IF i > n THEN st
    ELSE IssueLoop(IF i \in invalid
                   THEN ProviderCallback(st, i, InvalidUrlResponse)
                   ELSE st,
                   i + 1, n, invalid)

NoResponse == [response |-> None, error |-> "none"]

FanOutNoEarlyReturn(n, invalid) ==
    IssueLoop([pending |-> PendingInit(n),
               log     |-> <<>>,
               state   |-> [i \in 1..n |-> "inflight"],
               outcome |-> [i \in 1..n |-> NoResponse]],
              1, n, invalid)

\* the whole call, up to its return
FanOut(n, invalid) ==
    IF n = 0
    THEN [pending |-> 0, log |-> <<DoneEvent>>,
          state |-> <<>>, outcome |-> <<>>]
    ELSE IssueLoop([pending |-> PendingInit(n),
                    log     |-> <<>>,
                    state   |-> [i \in 1..n |-> "inflight"],
                    outcome |-> [i \in 1..n |-> NoResponse]],
                   1, n, invalid)

FanIdle == fanKind = "none" \/ \A i \in 1..fanN : fanState[i] = "responded"

FanStart(kind, n, invalid) ==
    /\ FanIdle
    /\ LET st == FanOut(n, invalid)
       IN  /\ fanKind' = kind
           /\ fanN' = n
           /\ pending' = st.pending
           /\ fanLog' = st.log
           /\ fanState' = st.state
           /\ fanOutcome' = st.outcome
    /\ UNCHANGED <<regVars, resVars, scrVars, hisVars, extVars>>

\* n: the size of get_addons_for_resource("stream", type, video_id)
FetchAllStreams(n, invalid) == FanStart("streams", n, invalid)

\* n: the size of get_addons_for_resource("subtitles", type, id)
FetchAllSubtitles(n, invalid) == FanStart("subtitles", n, invalid)

\* n: the size of get_searchable_catalogs()
Search(n, invalid) == FanStart("search", n, invalid)

\* the main loop delivers the response of provider i
ProviderResponds(i, resp) ==
    /\ fanKind # "none"
    /\ i \in 1..fanN
    /\ fanState[i] = "inflight"
    /\ LET st == ProviderCallback([pending |-> pending, log |-> fanLog,
                                   state |-> fanState, outcome |-> fanOutcome],
                                  i, resp)
       IN  /\ pending' = st.pending
           /\ fanLog' = st.log
           /\ fanState' = st.state
           /\ fanOutcome' = st.outcome
    /\ UNCHANGED <<fanKind, fanN>>
    /\ UNCHANGED <<regVars, resVars, scrVars, hisVars, extVars>>


(***************************************************************************)
(* Trakt::parse_stremio_id (trakt_service.cpp); ContentIds (trakt_types.hpp)*)
(***************************************************************************)
DigitChars == <<"0", "1", "2", "3", "4", "5", "6", "7", "8", "9">>
IsDigit(c) == \E d \in 1..10 : DigitChars[d] = c
DigitValue(c) == (CHOOSE d \in 1..10 : DigitChars[d] = c) - 1

RECURSIVE SplitLoopKeepEmpty(_, _, _)
\* the split without the "!current.empty()" tests
SplitLoopKeepEmpty(chars, current, parts) ==
    IF chars = <<>> THEN Append(parts, current)
    ELSE IF Head(chars) = ":"
    THEN SplitLoopKeepEmpty(Tail(chars), <<>>, Append(parts, current))
    ELSE SplitLoopKeepEmpty(Tail(chars), Append(current, Head(chars)), parts)

RECURSIVE SplitLoop(_, _, _)
\* the loop "for (char c : id)" followed by the push of the last segment
SplitLoop(chars, current, parts) ==
    IF chars = <<>>
    THEN (IF current # <<>> THEN Append(parts, current) ELSE parts)
    ELSE IF Head(chars) = ":"
    THEN SplitLoop(Tail(chars), <<>>,
                   IF current # <<>> THEN Append(parts, current) ELSE parts)
    ELSE SplitLoop(Tail(chars), Append(current, Head(chars)), parts)

RECURSIVE SkipSpaces(_)
SkipSpaces(s) == IF s # <<>> /\ Head(s) = " " THEN SkipSpaces(Tail(s)) ELSE s

RECURSIVE DigitsPrefix(_, _)
\* <<number of leading digits, their value>>
DigitsPrefix(s, acc) ==
    IF s # <<>> /\ IsDigit(Head(s))
    THEN DigitsPrefix(Tail(s), <<acc[1] + 1, acc[2] * 10 + DigitValue(Head(s))>>)
    ELSE acc

\* std::stoi / std::stoll: None when they throw std::invalid_argument
stoi(s) ==
    LET t    == SkipSpaces(s)
        neg  == t # <<>> /\ Head(t) = "-"
        body == IF t # <<>> /\ Head(t) \in {"-", "+"} THEN Tail(t) ELSE t
        dp   == DigitsPrefix(body, <<0, 0>>)
    IN  IF dp[1] = 0 THEN None
        ELSE Some(IF neg THEN 0 - dp[2] ELSE dp[2])

DefaultContentIds ==
    [imdb |-> None, tmdb |-> None, tvdb |-> None, kitsu |-> None,
     is_episode |-> FALSE, season |-> 0, episode |-> 0]

\* "season = stoi(a); episode = stoi(b); is_episode = true" inside a try block
ParseEpisode(result, a, b) ==
    IF stoi(a) = None THEN result
    ELSE IF stoi(b) = None THEN [result EXCEPT !.season = stoi(a)[1]]
    ELSE [result EXCEPT !.season = stoi(a)[1], !.episode = stoi(b)[1],
                        !.is_episode = TRUE]

\* the branch shared by "tmdb", "tvdb" and "kitsu": field is the id it sets
ParseNumeric(result, field, parts) ==
    IF stoi(parts[2]) = None THEN result
    ELSE LET r == [result EXCEPT ![field] = Some(stoi(parts[2])[1])]
         IN  IF Len(parts) >= 4 THEN ParseEpisode(r, parts[3], parts[4]) ELSE r

parse_stremio_id(id) ==
    LET parts == SplitLoop(id, <<>>, <<>>)
    IN  IF id = <<>> \/ parts = <<>> THEN DefaultContentIds
        ELSE LET first == parts[1]
             IN  IF Len(first) >= 2 /\ SubSeq(first, 1, 2) = <<"t", "t">>
                 THEN LET r == [DefaultContentIds EXCEPT !.imdb = Some(first)]
                      IN  IF Len(parts) >= 3
                          THEN ParseEpisode(r, parts[2], parts[3]) ELSE r
                 ELSE IF first = <<"t", "m", "d", "b">> /\ Len(parts) >= 2
                 THEN ParseNumeric(DefaultContentIds, "tmdb", parts)
                 ELSE IF first = <<"t", "v", "d", "b">> /\ Len(parts) >= 2
                 THEN ParseNumeric(DefaultContentIds, "tvdb", parts)
                 ELSE IF first = <<"k", "i", "t", "s", "u">> /\ Len(parts) >= 2
                 THEN ParseNumeric(DefaultContentIds, "kitsu", parts)
                 ELSE DefaultContentIds

has_id(ids) ==
    ids.imdb # None \/ ids.tmdb # None \/ ids.tvdb # None \/ ids.kitsu # None

NotParsed == [parsed |-> FALSE]

\* the identifier a caller assembles: the segments with ':' between them
RECURSIVE JoinSegments(_)
JoinSegments(segments) ==
    IF segments = <<>> THEN <<>>
    ELSE IF Len(segments) = 1 THEN segments[1]
    ELSE segments[1] \o <<":">> \o JoinSegments(Tail(segments))

IdIdleRest == UNCHANGED <<regVars, resVars, fanVars, scrVars, hisVars, mrgVars, trkVars, srchVars>>

\* one call parse_stremio_id(stremio_id)
ParseStremioId ==
    /\ content_ids = NotParsed
    /\ content_ids' = parse_stremio_id(stremio_id)
    /\ UNCHANGED <<id_segments, stremio_id>>
    /\ IdIdleRest


(***************************************************************************)
(* Playback session and Trakt scrobbling (window.cpp)                      *)
(***************************************************************************)
DebounceSeconds == 5
TimeHorizon == 3

NULL == "NULL"
\* a time in the history: <<>> when there is none, <<t>> otherwise
Never == <<>>
NoPause == <<>>

VideoIds == { <<"t", "t", "1", ":", "1", ":", "2">>, <<"x", "1">> }
MetaTypes == {"series"}
Positions == {5}
Durations == {10}
Actions == {"start", "pause", "stop"}

\* progress = clamp(position / duration * 100, 0, 100), 0 without a duration
Progress(position, duration) ==
    IF duration > 0
    THEN LET p == (position * 100) \div duration
         IN  IF p > 100 THEN 100 ELSE IF p < 0 THEN 0 ELSE p
    ELSE 0

DebounceBlockedStopToo(action) == now - last_scrobble_time < DebounceSeconds

DebounceBlockedPerAction(action) ==
    /\ action # "stop"
    /\ sentAt[action] # Never
    /\ now - sentAt[action][1] < DebounceSeconds

DebounceBlockedNever(action) == FALSE

\* "strcmp(action, "stop") != 0 && now - self->last_scrobble_time < 5"
DebounceBlocked(action) ==
    action # "stop" /\ now - last_scrobble_time < DebounceSeconds

\* trigger_scrobble(self, action), run with player_position = position:
\* the requests it sends and the value it leaves in last_scrobble_time
trigger_scrobble(action, position) ==
    IF current_video_id = NULL \/ current_meta_type = NULL
    THEN [sent |-> <<>>, last |-> last_scrobble_time]
    ELSE IF ~authenticated
    THEN [sent |-> <<>>, last |-> last_scrobble_time]
    ELSE IF DebounceBlocked(action)
    THEN [sent |-> <<>>, last |-> last_scrobble_time]
    ELSE IF ~has_id(parse_stremio_id(current_video_id))
    THEN [sent |-> <<>>, last |-> now]
    ELSE [sent |-> <<[action       |-> action,
                      content_type |-> current_meta_type,
                      video_id     |-> current_video_id,
                      progress     |-> Progress(position, player_duration)]>>,
          last |-> now]

\* lastEvent after a handler that has no scrobble trigger point
NoEvent == [name |-> "none", started |-> FALSE, auth |-> FALSE, video_id |-> NULL]

\* what a handler with a scrobble trigger point saw when it started
Saw(name) ==
    [name |-> name, started |-> scrobble_started, auth |-> authenticated,
     video_id |-> current_video_id]

RECURSIVE Stamp(_, _)
\* sentAt after the requests of one step
Stamp(at, requests) ==
    IF requests = <<>> THEN at
    ELSE Stamp([at EXCEPT ![Head(requests).action] = <<now>>], Tail(requests))

\* the entry save_watch_progress hands to update_progress, if it writes one
save_watch_progress(position) ==
    IF current_meta_id = NULL \/ current_video_id = NULL THEN <<>>
    ELSE IF player_duration <= 0 THEN <<>>
    ELSE <<[meta_id  |-> current_meta_id, video_id |-> current_video_id,
            position |-> position, duration |-> player_duration]>>

\* history_needs_save after save_watch_progress ran
SavedFlag(position) ==
    IF save_watch_progress(position) = <<>> THEN history_needs_save ELSE FALSE

ScrIdleRest == UNCHANGED <<regVars, resVars, fanVars, hisVars, extVars>>

\* the history keeps a time only while it is less than `window` seconds old
Recent(at, clock, window) == at # Never /\ clock - at[1] < window

\* passage of one second of wall-clock time
Tick ==
    /\ now < DebounceSeconds + TimeHorizon
    /\ now' = now + 1
    /\ lastEvent' = NoEvent
    /\ lastSent' = <<>>
    /\ lastWrite' = <<>>
    /\ sentAt' = [a \in Actions |-> IF Recent(sentAt[a], now + 1, DebounceSeconds)
                                    THEN sentAt[a] ELSE Never]
    /\ prevPause' = SelectSeq(prevPause, LAMBDA e : now + 1 - e.at < 2)
    /\ UNCHANGED <<authenticated, current_meta_id, current_meta_type,
                   current_video_id, loading, switching, player_is_playing,
                   player_position, player_duration, scrobble_started,
                   last_scrobble_time, history_needs_save, history_save_timeout_id>>
    /\ UNCHANGED loaded_video
    /\ ScrIdleRest

\* login, logout, token expiry or the sync_progress switch
TraktChanged(auth) ==
    /\ authenticated' = auth
    /\ lastEvent' = NoEvent
    /\ lastSent' = <<>>
    /\ lastWrite' = <<>>
    /\ UNCHANGED <<now, current_meta_id, current_meta_type, current_video_id,
                   loading, switching, player_is_playing, player_position,
                   player_duration, scrobble_started, last_scrobble_time,
                   history_needs_save, history_save_timeout_id, sentAt, prevPause>>
    /\ UNCHANGED loaded_video
    /\ ScrIdleRest

\* madari_window_play_episode / on_resume_stream_play, then
\* madari_window_play_video: reachable from the browse views only
PlayEpisode(video_id, meta_type) ==
    /\ current_video_id = NULL
    /\ current_meta_id' = "meta"
    /\ current_meta_type' = meta_type
    /\ current_video_id' = video_id
    /\ player_position' = 0
    /\ player_duration' = 0
    /\ player_is_playing' = FALSE
    /\ loading' = TRUE
    /\ lastEvent' = NoEvent
    /\ lastSent' = <<>>
    /\ lastWrite' = <<>>
    /\ UNCHANGED <<now, authenticated, switching, scrobble_started,
                   last_scrobble_time, history_needs_save,
                   history_save_timeout_id, sentAt, prevPause>>
    /\ loaded_video' = video_id
    /\ ScrIdleRest

\* MPV_EVENT_FILE_LOADED
FileLoaded ==
    /\ loading
    /\ loading' = FALSE
    /\ LET r == IF scrobble_started
                THEN [sent |-> <<>>, last |-> last_scrobble_time]
                ELSE trigger_scrobble("start", player_position)
       IN  /\ scrobble_started' = TRUE
           /\ last_scrobble_time' = r.last
           /\ lastSent' = r.sent
           /\ sentAt' = Stamp(sentAt, r.sent)
    /\ lastEvent' = Saw("file_loaded")
    /\ lastWrite' = <<>>
    /\ prevPause' = NoPause
    /\ UNCHANGED <<now, authenticated, current_meta_id, current_meta_type,
                   current_video_id, switching, player_is_playing, player_position,
                   player_duration, history_needs_save, history_save_timeout_id>>
    /\ UNCHANGED loaded_video
    /\ ScrIdleRest

\* property change "time-pos", then schedule_history_save
TimePos(position) ==
    /\ current_video_id # NULL
    /\ player_position' = position
    /\ history_needs_save' = TRUE
    /\ history_save_timeout_id' = 1
    /\ lastEvent' = NoEvent
    /\ lastSent' = <<>>
    /\ lastWrite' = <<>>
    /\ UNCHANGED <<now, authenticated, current_meta_id, current_meta_type,
                   current_video_id, loading, switching, player_is_playing,
                   player_duration, scrobble_started, last_scrobble_time,
                   sentAt, prevPause>>
    /\ UNCHANGED loaded_video
    /\ ScrIdleRest

\* property change "duration"
Duration(duration) ==
    /\ current_video_id # NULL
    /\ ~loading
    /\ player_duration' = duration
    /\ lastEvent' = NoEvent
    /\ lastSent' = <<>>
    /\ lastWrite' = <<>>
    /\ UNCHANGED <<now, authenticated, current_meta_id, current_meta_type,
                   current_video_id, loading, switching, player_is_playing,
                   player_position, scrobble_started, last_scrobble_time,
                   history_needs_save, history_save_timeout_id, sentAt, prevPause>>
    /\ UNCHANGED loaded_video
    /\ ScrIdleRest

\* property change "pause": paused is the flag mpv reports
PauseChanged(paused) ==
    /\ player_is_playing' = ~paused
    /\ LET action == IF ~paused THEN "start" ELSE "pause"
           fires  == scrobble_started /\ player_is_playing # ~paused
           r      == IF fires THEN trigger_scrobble(action, player_position)
                     ELSE [sent |-> <<>>, last |-> last_scrobble_time]
       IN  /\ last_scrobble_time' = r.last
           /\ lastSent' = r.sent
           /\ sentAt' = Stamp(sentAt, r.sent)
           /\ lastEvent' = IF ~fires THEN NoEvent
                           ELSE IF paused THEN Saw("pause_trigger")
                           ELSE Saw("resume_trigger")
           /\ prevPause' = IF fires /\ paused
                           THEN (IF prevPause = <<>> THEN <<>>
                                 ELSE <<prevPause[Len(prevPause)]>>)
                                \o <<[at |-> now, sent |-> Len(r.sent),
                                      auth |-> authenticated]>>
                           ELSE prevPause
    /\ lastWrite' = <<>>
    /\ UNCHANGED <<now, authenticated, current_meta_id, current_meta_type,
                   current_video_id, loading, switching, player_position,
                   player_duration, scrobble_started, history_needs_save,
                   history_save_timeout_id>>
    /\ UNCHANGED loaded_video
    /\ ScrIdleRest

\* madari_window_stop_video, entered with scrobble_started = started,
\* player_position = position and last_scrobble_time = last, after the
\* caller already sent `sent` in this step
StopVideoFrom(name, started, position, sent, last) ==
    /\ LET r == IF started THEN trigger_scrobble("stop", position)
                ELSE [sent |-> <<>>, last |-> last]
       IN  /\ last_scrobble_time' = r.last
           /\ lastSent' = sent \o r.sent
           /\ sentAt' = Stamp(sentAt, sent \o r.sent)
    /\ scrobble_started' = FALSE
    /\ history_save_timeout_id' = 0
    /\ lastWrite' = IF history_needs_save THEN save_watch_progress(position) ELSE <<>>
    /\ history_needs_save' = IF history_needs_save THEN SavedFlag(position)
                             ELSE FALSE
    /\ player_position' = position
    /\ current_meta_id' = NULL
    /\ current_meta_type' = NULL
    /\ current_video_id' = NULL
    /\ loading' = FALSE
    /\ switching' = FALSE
    /\ lastEvent' = Saw(name)
    /\ prevPause' = NoPause
    /\ UNCHANGED <<now, authenticated, player_is_playing, player_duration>>
    /\ loaded_video' = NULL
    /\ ScrIdleRest

\* the back button or Escape: madari_window_stop_video
StopVideo ==
    /\ current_video_id # NULL
    /\ StopVideoFrom("stop_video", scrobble_started, player_position, <<>>,
                     last_scrobble_time)

\* property change "eof-reached" with a true flag
EofReached ==
    /\ current_video_id # NULL
    /\ ~loading
    /\ IF scrobble_started
       THEN LET r == trigger_scrobble("stop", player_duration)
            IN  StopVideoFrom("eof_reached", FALSE, player_duration, r.sent, r.last)
       ELSE StopVideoFrom("eof_reached", FALSE, player_position, <<>>,
                          last_scrobble_time)

\* play_episode_by_index up to the stream request: next / previous episode
PlayEpisodeByIndex(video_id) ==
    /\ current_video_id # NULL
    /\ LET r == IF scrobble_started THEN trigger_scrobble("stop", player_position)
                ELSE [sent |-> <<>>, last |-> last_scrobble_time]
       IN  /\ last_scrobble_time' = r.last
           /\ lastSent' = r.sent
           /\ sentAt' = Stamp(sentAt, r.sent)
    /\ scrobble_started' = FALSE
    /\ current_video_id' = video_id
    /\ switching' = TRUE
    /\ lastEvent' = Saw("play_episode_by_index")
    /\ lastWrite' = <<>>
    /\ prevPause' = NoPause
    /\ UNCHANGED <<now, authenticated, current_meta_id, current_meta_type, loading,
                   player_is_playing, player_position, player_duration,
                   history_needs_save, history_save_timeout_id>>
    /\ UNCHANGED loaded_video
    /\ ScrIdleRest

\* a stream for the new episode is played: the binge-group match of
\* play_episode_by_index, or on_episode_stream_play_clicked
EpisodeStreamPlay ==
    /\ switching
    /\ switching' = FALSE
    /\ player_duration' = 0
    /\ player_position' = 0
    /\ loading' = TRUE
    /\ lastEvent' = NoEvent
    /\ lastSent' = <<>>
    /\ lastWrite' = <<>>
    /\ UNCHANGED <<now, authenticated, current_meta_id, current_meta_type,
                   current_video_id, player_is_playing, scrobble_started,
                   last_scrobble_time, history_needs_save, history_save_timeout_id,
                   sentAt, prevPause>>
    /\ loaded_video' = current_video_id
    /\ ScrIdleRest

\* on_history_save_timeout: the 10-second timer fires
OnHistorySaveTimeout ==
    /\ history_save_timeout_id # 0
    /\ lastWrite' = IF history_needs_save THEN save_watch_progress(player_position)
                    ELSE <<>>
    /\ history_needs_save' = IF history_needs_save THEN SavedFlag(player_position)
                             ELSE FALSE
    /\ lastEvent' = NoEvent
    /\ lastSent' = <<>>
    /\ UNCHANGED <<now, authenticated, current_meta_id, current_meta_type,
                   current_video_id, loading, switching, player_is_playing,
                   player_position, player_duration, scrobble_started,
                   last_scrobble_time, history_save_timeout_id, sentAt, prevPause>>
    /\ UNCHANGED loaded_video
    /\ ScrIdleRest

(***************************************************************************)
(* WatchHistoryService (watch_history.cpp, watch_history.hpp)              *)
(***************************************************************************)
\* "Limit history size to 500 entries", scaled down
HistoryLimit == 2
\* seconds the clock advances while the store is exercised
StoreHorizon == 1

HistoryMetaIds == {"m1", "m2"}
HistoryKeys ==
    { [meta_id |-> "m1", video_id |-> "v1"],
      [meta_id |-> "m1", video_id |-> "v2"],
      [meta_id |-> "m2", video_id |-> "m2"],
      [meta_id |-> "m9", video_id |-> "v1"] }

\* the entries callers hand to update_progress: two episodes of the series
\* m1 and the movie m2
HistoryEntry(meta_id, video_id, position) ==
    [meta_id      |-> meta_id,
     meta_type    |-> IF meta_id = "m1" THEN "series" ELSE "movie",
     video_id     |-> video_id,
     title        |-> "Title",
     poster_url   |-> "poster.png",
     series_title |-> IF meta_id = "m1" THEN Some("Series") ELSE None,
     season       |-> IF meta_id = "m1" THEN Some(1) ELSE None,
     episode      |-> IF meta_id = "m1" THEN Some(IF video_id = "v1" THEN 1 ELSE 2)
                      ELSE None,
     position     |-> position,
     duration     |-> 100,
     last_watched |-> 0,
     binge_group  |-> None]

HistoryInputs ==
    { HistoryEntry(k.meta_id, k.video_id, 10) : k \in {x \in HistoryKeys : x.meta_id # "m9"} }

\* the positions update_position reports
TickPositions == {40}

\* the value of a field load() leaves uninitialised
Indeterminate == {0, 7}

\* WatchHistoryEntry::get_progress() >= 0.9, in tenths
is_finished(e) == e.duration > 0 /\ 10 * e.position >= 9 * e.duration

is_resumable(e) == e.position > 30 /\ ~is_finished(e)

\* index of the first entry with this key, 0 when there is none
find_entry_indexNever(history, meta_id, video_id) == 0

find_entry_index(history, meta_id, video_id) ==
    IF \E i \in 1..Len(history) :
          history[i].meta_id = meta_id /\ history[i].video_id = video_id
    THEN CHOOSE i \in 1..Len(history) :
            /\ history[i].meta_id = meta_id /\ history[i].video_id = video_id
            /\ \A j \in 1..(i - 1) :
                  ~(history[j].meta_id = meta_id /\ history[j].video_id = video_id)
    ELSE 0

\* vector::resize(n) when the vector is longer than n
Truncate(list, n) == IF Len(list) > n THEN SubSeq(list, 1, n) ELSE list

\* history_ after update_progress(entry) at time `time`
update_progress(history, entry, time) ==
    LET idx     == find_entry_index(history, entry.meta_id, entry.video_id)
        stamped == [entry EXCEPT !.last_watched = time]
    IN  IF idx >= 1
        THEN IF idx > 1
             THEN <<stamped>> \o RemoveAt(history, idx)
             ELSE [history EXCEPT ![1] = stamped]
        ELSE Truncate(<<stamped>> \o history, HistoryLimit)

update_positionToFront(history, meta_id, video_id, position, duration, time) ==
    LET idx == find_entry_index(history, meta_id, video_id)
    IN  IF idx >= 1
        THEN <<[history[idx] EXCEPT !.position = position, !.duration = duration,
                                    !.last_watched = time]>> \o RemoveAt(history, idx)
        ELSE history

\* history_ after update_position(...) at time `time`
update_position(history, meta_id, video_id, position, duration, time) ==
    LET idx == find_entry_index(history, meta_id, video_id)
    IN  IF idx >= 1
        THEN [history EXCEPT ![idx].position = position,
                             ![idx].duration = duration,
                             ![idx].last_watched = time]
        ELSE history

get_entry(history, meta_id, video_id) ==
    LET idx == find_entry_index(history, meta_id, video_id)
    IN  IF idx >= 1 THEN Some(history[idx]) ELSE None

\* the first entry of this meta id in list order
get_latest_for_series(history, meta_id) ==
    IF \E i \in 1..Len(history) : history[i].meta_id = meta_id
    THEN Some(history[CHOOSE i \in 1..Len(history) :
                        /\ history[i].meta_id = meta_id
                        /\ \A j \in 1..(i - 1) : history[j].meta_id # meta_id])
    ELSE None

RECURSIVE ContinueLoop(_, _, _, _)
\* the loop of get_continue_watching over the rest of history_
ContinueLoop(rest, result, seen_series, limit) ==
    IF rest = <<>> \/ Len(result) >= limit THEN result
    ELSE LET entry == Head(rest)
         IN  IF ~is_resumable(entry)
             THEN ContinueLoop(Tail(rest), result, seen_series, limit)
             ELSE IF entry.meta_type = "series" /\ entry.meta_id \in seen_series
             THEN ContinueLoop(Tail(rest), result, seen_series, limit)
             ELSE ContinueLoop(Tail(rest), Append(result, entry),
                               IF entry.meta_type = "series"
                               THEN seen_series \cup {entry.meta_id}
                               ELSE seen_series,
                               limit)

get_continue_watching(history, limit) == ContinueLoop(history, <<>>, {}, limit)

get_all_history(history, limit) ==
    IF Len(history) > limit THEN SubSeq(history, 1, limit) ELSE history

\* ---- save() and load() ----
SaveHistoryEntry(e) ==
    JObj([meta_id      |-> JStr(e.meta_id),
          meta_type    |-> JStr(e.meta_type),
          video_id     |-> JStr(e.video_id),
          title        |-> JStr(e.title),
          poster_url   |-> JStr(e.poster_url),
          position     |-> JDouble(e.position),
          duration     |-> JDouble(e.duration),
          last_watched |-> JInt(e.last_watched)]
         @@ (IF e.series_title # None
             THEN [x \in {"series_title"} |-> JStr(e.series_title[1])] ELSE EmptyMembers)
         @@ (IF e.season # None
             THEN [x \in {"season"} |-> JInt(e.season[1])] ELSE EmptyMembers)
         @@ (IF e.episode # None
             THEN [x \in {"episode"} |-> JInt(e.episode[1])] ELSE EmptyMembers)
         @@ (IF e.binge_group # None
             THEN [x \in {"binge_group"} |-> JStr(e.binge_group[1])] ELSE EmptyMembers))

SaveHistoryDoc(history) == JArr([i \in 1..Len(history) |-> SaveHistoryEntry(history[i])])

\* a string member that is kept only when it is present and not empty
NonEmptyMember(obj, member) ==
    IF HasMember(obj, member) /\ obj[member].v # "" THEN Some(obj[member].v) ELSE None

MemberOr(obj, member, default) ==
    IF HasMember(obj, member) THEN obj[member].v ELSE default

\* the entry load() builds from one object; junk is what an unset field holds
LoadHistoryEntry(obj, junk) ==
    [meta_id      |-> MemberOr(obj, "meta_id", ""),
     meta_type    |-> MemberOr(obj, "meta_type", ""),
     video_id     |-> MemberOr(obj, "video_id", ""),
     title        |-> MemberOr(obj, "title", ""),
     poster_url   |-> MemberOr(obj, "poster_url", ""),
     series_title |-> NonEmptyMember(obj, "series_title"),
     season       |-> IF HasMember(obj, "season") THEN Some(obj["season"].v) ELSE None,
     episode      |-> IF HasMember(obj, "episode") THEN Some(obj["episode"].v) ELSE None,
     position     |-> MemberOr(obj, "position", junk),
     duration     |-> MemberOr(obj, "duration", junk),
     last_watched |-> MemberOr(obj, "last_watched", junk),
     binge_group  |-> NonEmptyMember(obj, "binge_group")]

\* the entries load() pushes, in file order
LoadHistoryEntries(file, junk) ==
    IF file = NoFile \/ file.t # "arr" THEN <<>>
    ELSE LET objs == SelectSeq(file.v, LAMBDA n : n.t = "obj")
             all  == [i \in 1..Len(objs) |-> LoadHistoryEntry(objs[i].v, junk)]
         IN  SelectSeq(all, LAMBDA e : e.meta_id # "" /\ e.video_id # "")

NonIncreasing(list) ==
    \A i \in 1..(Len(list) - 1) : list[i].last_watched >= list[i + 1].last_watched

\* what std::sort with "a.last_watched > b.last_watched" may leave: any
\* arrangement in non-increasing order (the sort is not stable)
SortedByLastWatched(list) ==
    { arranged \in { [i \in 1..Len(list) |-> list[f[i]]] : f \in Permutations(1..Len(list)) } :
         NonIncreasing(arranged) }

\* WatchHistoryService::notify_change: save(), then every registered callback
history_notify_change ==
    <<Ev("save")>> \o [k \in 1..Len(history_callbacks) |-> Invoked(history_callbacks[k])]

HisIdleRest == UNCHANGED <<regVars, resVars, fanVars, scrVars, extVars>>

OnHistoryChanged ==
    /\ Len(history_callbacks) < MaxObservers
    /\ history_callbacks' = Append(history_callbacks, Len(history_callbacks) + 1)
    /\ histLog' = <<>>
    /\ UNCHANGED <<history_, history_disk>>
    /\ HisIdleRest

UpdateProgress(entry) ==
    /\ history_' = update_progress(history_, entry, now)
    /\ history_disk' = SaveHistoryDoc(history_')
    /\ histLog' = <<Ev(IF find_entry_index(history_, entry.meta_id, entry.video_id) >= 1
                       THEN "update_existing" ELSE "add_new")>>
                  \o history_notify_change
    /\ UNCHANGED history_callbacks
    /\ HisIdleRest

UpdatePosition(meta_id, video_id, position, duration) ==
    /\ history_' = update_position(history_, meta_id, video_id, position, duration, now)
    /\ histLog' = <<>>
    /\ UNCHANGED <<history_disk, history_callbacks>>
    /\ HisIdleRest

RemoveEntry(meta_id, video_id) ==
    /\ LET idx == find_entry_index(history_, meta_id, video_id)
       IN  IF idx >= 1
           THEN /\ history_' = RemoveAt(history_, idx)
                /\ history_disk' = SaveHistoryDoc(history_')
                /\ histLog' = history_notify_change \o <<Return("remove_entry", TRUE)>>
           ELSE /\ histLog' = <<Return("remove_entry", FALSE)>>
                /\ UNCHANGED <<history_, history_disk>>
    /\ UNCHANGED history_callbacks
    /\ HisIdleRest

RemoveSeriesHistory(meta_id) ==
    /\ LET kept == SelectSeq(history_, LAMBDA e : e.meta_id # meta_id)
       IN  IF Len(kept) # Len(history_)
           THEN /\ history_' = kept
                /\ history_disk' = SaveHistoryDoc(kept)
                /\ histLog' = history_notify_change
                                 \o <<Return("remove_series_history", TRUE)>>
           ELSE /\ histLog' = <<Return("remove_series_history", FALSE)>>
                /\ UNCHANGED <<history_, history_disk>>
    /\ UNCHANGED history_callbacks
    /\ HisIdleRest

ClearAll ==
    /\ history_' = <<>>
    /\ history_disk' = SaveHistoryDoc(<<>>)
    /\ histLog' = history_notify_change
    /\ UNCHANGED history_callbacks
    /\ HisIdleRest

\* save() called directly, as the destructor does
HistorySave ==
    /\ history_disk' = SaveHistoryDoc(history_)
    /\ histLog' = <<Ev("save")>>
    /\ UNCHANGED <<history_, history_callbacks>>
    /\ HisIdleRest

\* load(): history_ is cleared and read back from the file
HistoryLoad ==
    /\ \E junk \in Indeterminate :
          history_' \in SortedByLastWatched(LoadHistoryEntries(history_disk, junk))
    /\ histLog' = <<Ev("load")>>
    /\ UNCHANGED <<history_disk, history_callbacks>>
    /\ HisIdleRest

(***************************************************************************)
(* Initial states and specifications                                       *)
(***************************************************************************)
\* AddonService as constructed, before load()
RegInit ==
    /\ installed_addons = <<>>
    /\ disk = NoFile
    /\ fetches = <<>>
    /\ regLog = <<>>
    /\ change_callbacks = <<>>

\* WatchHistoryService as constructed, before load()
HisInit ==
    /\ history_ = <<>>
    /\ history_disk = NoFile
    /\ history_callbacks = <<>>
    /\ histLog = <<>>

ResInit ==
    /\ query = NoQuery
    /\ resolved = <<>>

FanInit ==
    /\ fanKind = "none"
    /\ fanN = 0
    /\ fanState = <<>>
    /\ fanOutcome = <<>>
    /\ pending = 0
    /\ fanLog = <<>>

\* madari_window_init; the clock stands at least DebounceSeconds after the epoch
(***************************************************************************)
(* The continue-watching section (window.cpp)                              *)
(***************************************************************************)
\* history->get_continue_watching(50)
LocalLimit == 50
\* "Add sorted items (limit to 15)"
SectionLimit == 15

MaxPlayback == 2

DigitStrings == <<"0", "1", "2", "3", "4", "5", "6", "7", "8", "9">>

\* std::to_string(int)
RECURSIVE to_string(_)
to_string(n) ==
    IF n < 0 THEN "-" \o to_string(-n)
    ELSE IF n < 10 THEN DigitStrings[n + 1]
    ELSE to_string(n \div 10) \o DigitStrings[(n % 10) + 1]

\* the paused_at values the remote list carries
PausedAts ==
    {"1970-01-01T00:00:04.000Z", "1970-01-01T00:00:06.000Z", "yesterday", ""}

\* strptime("%Y-%m-%dT%H:%M:%S") and timegm, 0 when the text does not parse
parse_iso8601(timestamp) ==
    IF timestamp = "" THEN 0
    ELSE CASE timestamp = "1970-01-01T00:00:04.000Z" -> 4
           [] timestamp = "1970-01-01T00:00:06.000Z" -> 6
           [] OTHER -> 0

\* Trakt::PlaybackProgress records
PlaybackMovie(imdb, paused_at) ==
    [type |-> "movie", progress |-> 50, paused_at |-> paused_at,
     movie |-> Some([title |-> "Movie", ids |-> [imdb |-> imdb]]),
     show |-> None, episode |-> None]

PlaybackEpisode(show, season, number, paused_at) ==
    [type |-> "episode", progress |-> 50, paused_at |-> paused_at,
     movie |-> None, show |-> show,
     episode |-> Some([title |-> "Episode", season |-> season, number |-> number])]

ShowOf(imdb) == Some([title |-> "Series", ids |-> [imdb |-> Some(imdb)]])

Playbacks ==
    { PlaybackEpisode(ShowOf("tt1"), 1, 2, "1970-01-01T00:00:06.000Z"),
      PlaybackEpisode(ShowOf("tt1"), 1, 3, "1970-01-01T00:00:04.000Z"),
      PlaybackEpisode(None, 1, 2, ""),
      PlaybackMovie(Some("tt2"), "yesterday"),
      PlaybackMovie(None, "1970-01-01T00:00:04.000Z") }

value_or(optional, default) == IF optional = None THEN default ELSE optional[1]

\* trakt_playback_to_entry at wall-clock time `time`
trakt_playback_to_entry(playback, time) ==
    LET parsed == parse_iso8601(playback.paused_at)
        entry  == [meta_id      |-> "",
                   meta_type    |-> "",
                   video_id     |-> "",
                   title        |-> "",
                   poster_url   |-> "",
                   series_title |-> None,
                   season       |-> None,
                   episode      |-> None,
                   position     |-> playback.progress,
                   duration     |-> 100,
                   last_watched |-> IF parsed = 0 THEN time ELSE parsed,
                   binge_group  |-> None]
    IN  IF playback.type = "movie" /\ playback.movie # None
        THEN LET movie == playback.movie[1]
                 id    == value_or(movie.ids.imdb, "")
             IN  [entry EXCEPT !.meta_id = id, !.video_id = id,
                               !.meta_type = "movie", !.title = movie.title]
        ELSE IF playback.type = "episode" /\ playback.episode # None
        THEN LET ep      == playback.episode[1]
                 meta_id == IF playback.show # None
                            THEN value_or(playback.show[1].ids.imdb, "") ELSE ""
             IN  [entry EXCEPT !.meta_type = "series", !.title = ep.title,
                               !.season = Some(ep.season), !.episode = Some(ep.number),
                               !.meta_id = meta_id,
                               !.series_title = IF playback.show # None
                                                THEN Some(playback.show[1].title) ELSE None,
                               !.video_id = meta_id \o ":" \o to_string(ep.season)
                                                    \o ":" \o to_string(ep.number)]
        ELSE entry

VideoIdsOf(list) == { list[i].video_id : i \in 1..Len(list) }

\* the loop without the existing_ids test
MergeLoopKeepAll(entries, existing_ids) == entries

\* the remote entries the loop pushes: those whose video_id is not in
\* existing_ids, which grows with each one pushed
RECURSIVE MergeLoop(_, _)
MergeLoop(entries, existing_ids) ==
    IF entries = <<>> THEN <<>>
    ELSE LET entry == Head(entries)
         IN  IF entry.video_id \notin existing_ids
             THEN <<entry>> \o MergeLoop(Tail(entries), existing_ids \cup {entry.video_id})
             ELSE MergeLoop(Tail(entries), existing_ids)

\* what get_playback hands to its callback
PlaybackReplies ==
    { [error |-> "Request failed", playback |-> None],
      [error |-> "", playback |-> None] }
    \cup { [error |-> "", playback |-> Some(list)] :
              list \in UNION { [1..n -> Playbacks] : n \in 0..MaxPlayback } }

NoMerge == [local |-> <<>>, received |-> <<>>, added |-> <<>>]

MrgIdleRest == UNCHANGED <<regVars, resVars, fanVars, scrVars, hisVars, idVars, trkVars, srchVars>>

\* create_continue_watching_section up to the request it starts
CreateContinueWatchingSection ==
    /\ section \in {"none", "null", "shown"}
    /\ LET local == get_continue_watching(history_, LocalLimit)
       IN  IF local = <<>> /\ ~authenticated
           THEN /\ section' = "null"
                /\ local_items' = <<>>
                /\ merged' = <<>>
           ELSE IF authenticated
           THEN /\ section' = "waiting"
                /\ local_items' = local
                /\ merged' = <<>>
           ELSE /\ section' = "shown"
                /\ local_items' = <<>>
                /\ \E sorted \in SortedByLastWatched(local) :
                      merged' = Truncate(sorted, SectionLimit)
    /\ lastMerge' = NoMerge
    /\ MrgIdleRest

\* the get_playback callback of the section
GetPlaybackDone(reply) ==
    /\ section = "waiting"
    /\ LET received == IF reply.error = "" /\ reply.playback # None
                       THEN [i \in 1..Len(reply.playback[1]) |->
                               trakt_playback_to_entry(reply.playback[1][i], now)]
                       ELSE <<>>
           added    == MergeLoop(received, VideoIdsOf(local_items))
       IN  /\ \E sorted \in SortedByLastWatched(local_items \o added) :
                 merged' = Truncate(sorted, SectionLimit)
           /\ lastMerge' = [local |-> local_items, received |-> received, added |-> added]
    /\ section' = "shown"
    /\ local_items' = <<>>
    /\ MrgIdleRest

(***************************************************************************)
(* TraktService device authorization (trakt_service.cpp) and the dialog    *)
(* that drives it (preferences_window.cpp)                                 *)
(***************************************************************************)
MaxRequests == 2

\* a response body that is not JSON
NotJson == [t |-> "text"]

DefaultConfig ==
    [access_token |-> "", refresh_token |-> "", expires_at |-> 0,
     enabled |-> FALSE, username |-> None]

\* TraktService::save: the members written for the modelled fields
SaveTraktConfig(config) ==
    JObj([access_token  |-> JStr(config.access_token),
          refresh_token |-> JStr(config.refresh_token),
          expires_at    |-> JInt(config.expires_at),
          enabled       |-> JBool(config.enabled),
          username      |-> IF config.username = None THEN JStr("")
                            ELSE JStr(config.username[1])])

\* what make_request hands to its callback: (response, status, error)
HttpFailure(status) ==
    [status |-> status, body |-> NotJson, error |-> "HTTP " \o to_string(status)]

TokenBodyFull ==
    JObj([access_token |-> JStr("A"), refresh_token |-> JStr("R"),
          expires_in |-> JInt(100), created_at |-> JInt(1)])

TokenBodyNoCreatedAt ==
    JObj([access_token |-> JStr("A"), refresh_token |-> JStr("R"),
          expires_in |-> JInt(100)])

TokenResponses ==
    { HttpFailure(status) : status \in {400, 404, 409, 410, 418, 500} }
    \cup { [status |-> 0, body |-> NotJson, error |-> "timed out"] }
    \cup { [status |-> 200, body |-> b, error |-> ""] :
              b \in {TokenBodyFull, TokenBodyNoCreatedAt, NotJson,
                     JArr(<<>>), JObj(EmptyMembers)} }

PollCallback(success, waiting, error) ==
    [ev |-> "poll_callback", success |-> success, pending |-> waiting, error |-> error]

PollOutcome(config, stored, cb) == [config |-> config, stored |-> stored, cb |-> cb]

\* status 400 reported as a failure
poll_device_tokenNoPending(resp, config, time) ==
    PollOutcome(config, FALSE, PollCallback(FALSE, FALSE, "Authorization expired or denied"))

\* the make_request callback of poll_device_token at wall-clock time `time`
poll_device_token(resp, config, time) ==
    IF resp.status = 400
    THEN PollOutcome(config, FALSE, PollCallback(FALSE, TRUE, "Waiting for user authorization"))
    ELSE IF resp.status \in {404, 409, 410, 418}
    THEN PollOutcome(config, FALSE, PollCallback(FALSE, FALSE, "Authorization expired or denied"))
    ELSE IF resp.error # "" /\ resp.status # 200
    THEN PollOutcome(config, FALSE, PollCallback(FALSE, FALSE, resp.error))
    ELSE IF resp.body = NotJson
    THEN PollOutcome(config, FALSE, PollCallback(FALSE, FALSE, "Failed to parse token response"))
    ELSE IF resp.body.t # "obj"
    THEN PollOutcome(config, FALSE, PollCallback(FALSE, FALSE, "Invalid token response"))
    ELSE LET obj == resp.body.v
             c1  == IF HasMember(obj, "access_token")
                    THEN [config EXCEPT !.access_token = obj["access_token"].v] ELSE config
             c2  == IF HasMember(obj, "refresh_token")
                    THEN [c1 EXCEPT !.refresh_token = obj["refresh_token"].v] ELSE c1
             c3  == IF HasMember(obj, "expires_in")
                    THEN [c2 EXCEPT !.expires_at = time + obj["expires_in"].v] ELSE c2
             c4  == IF HasMember(obj, "created_at") /\ HasMember(obj, "expires_in")
                    THEN [c3 EXCEPT !.expires_at = obj["created_at"].v + obj["expires_in"].v]
                    ELSE c3
         IN  PollOutcome([c4 EXCEPT !.enabled = TRUE], TRUE, PollCallback(TRUE, FALSE, ""))

TrkIdleRest == UNCHANGED <<regVars, resVars, fanVars, scrVars, hisVars, mrgVars, idVars, srchVars>>

\* on_trakt_login_clicked: the dialog is presented, start_device_auth sent
LoginClicked ==
    /\ trakt_auth_dialog \in {"none", "closed"}
    /\ Len(trakt_requests) < MaxRequests
    /\ trakt_auth_dialog' = "open"
    /\ trakt_requests' = Append(trakt_requests, "device_code")
    /\ authLog' = <<>>
    /\ UNCHANGED <<config_, trakt_disk, trakt_device_code, trakt_poll_timeout_id,
                   close_pending, closedConfig>>
    /\ TrkIdleRest

\* the start_device_auth callback of the preferences window
DeviceCodeArrives(i, ok) ==
    /\ i \in 1..Len(trakt_requests) /\ trakt_requests[i] = "device_code"
    /\ trakt_requests' = RemoveAt(trakt_requests, i)
    /\ IF ok
       THEN /\ trakt_device_code' = "device-code"
            /\ trakt_poll_timeout_id' = 1
       ELSE UNCHANGED <<trakt_device_code, trakt_poll_timeout_id>>
    /\ authLog' = <<>>
    /\ UNCHANGED <<config_, trakt_disk, trakt_auth_dialog, close_pending, closedConfig>>
    /\ TrkIdleRest

\* trakt_poll_device_token: the polling timer fires
PollTimerFires ==
    /\ trakt_poll_timeout_id # 0
    /\ IF trakt_device_code = NULL
       THEN /\ trakt_poll_timeout_id' = 0
            /\ UNCHANGED trakt_requests
       ELSE /\ Len(trakt_requests) < MaxRequests
            /\ trakt_requests' = Append(trakt_requests, "token")
            /\ UNCHANGED trakt_poll_timeout_id
    /\ authLog' = <<>>
    /\ UNCHANGED <<config_, trakt_disk, trakt_auth_dialog, trakt_device_code,
                   close_pending, closedConfig>>
    /\ TrkIdleRest

\* a device-token response: the callback of poll_device_token, which calls
\* the callback of trakt_poll_device_token
PollResponse(i, resp) ==
    /\ i \in 1..Len(trakt_requests) /\ trakt_requests[i] = "token"
    /\ LET r == poll_device_token(resp, config_, now)
       IN  /\ config_' = r.config
           /\ trakt_disk' = IF r.stored THEN SaveTraktConfig(r.config) ELSE trakt_disk
           /\ trakt_requests' = IF r.stored THEN Append(RemoveAt(trakt_requests, i), "settings")
                          ELSE RemoveAt(trakt_requests, i)
           /\ authLog' = (IF r.stored THEN <<Ev("save"), Ev("notify_change")>> ELSE <<>>)
                         \o <<r.cb>>
           /\ trakt_poll_timeout_id' = IF r.cb.success \/ ~r.cb.pending THEN 0
                                       ELSE trakt_poll_timeout_id
           /\ close_pending' = (close_pending \/ r.cb.success)
    /\ UNCHANGED <<trakt_auth_dialog, trakt_device_code, closedConfig>>
    /\ TrkIdleRest

\* the get_user_settings callback registered by poll_device_token
UserSettingsArrive(i, settings) ==
    /\ i \in 1..Len(trakt_requests) /\ trakt_requests[i] = "settings"
    /\ trakt_requests' = RemoveAt(trakt_requests, i)
    /\ IF settings # None
       THEN /\ config_' = [config_ EXCEPT !.username = settings]
            /\ trakt_disk' = SaveTraktConfig(config_')
            /\ authLog' = <<Ev("save"), Ev("notify_change")>>
       ELSE /\ UNCHANGED <<config_, trakt_disk>>
            /\ authLog' = <<>>
    /\ UNCHANGED <<trakt_auth_dialog, trakt_device_code, trakt_poll_timeout_id,
                   close_pending, closedConfig>>
    /\ TrkIdleRest

\* the "closed" handler of the dialog
OnDialogClosed ==
    /\ trakt_auth_dialog' = "closed"
    /\ trakt_poll_timeout_id' = 0
    /\ trakt_device_code' = NULL
    /\ closedConfig' = config_
    /\ authLog' = <<>>

\* Cancel, Escape or a click outside: adw_dialog_close
DialogClosed ==
    /\ trakt_auth_dialog = "open"
    /\ OnDialogClosed
    /\ UNCHANGED <<config_, trakt_disk, trakt_requests, close_pending>>
    /\ TrkIdleRest

\* the 1500 ms timeout set after a successful poll
DelayedClose ==
    /\ close_pending
    /\ close_pending' = FALSE
    /\ IF trakt_auth_dialog = "open"
       THEN OnDialogClosed
       ELSE /\ authLog' = <<>>
            /\ UNCHANGED <<trakt_auth_dialog, trakt_poll_timeout_id,
                           trakt_device_code, closedConfig>>
    /\ UNCHANGED <<config_, trakt_disk, trakt_requests>>
    /\ TrkIdleRest

TrkInit ==
    /\ config_ = DefaultConfig
    /\ trakt_disk = NoFile
    /\ trakt_requests = <<>>
    /\ trakt_auth_dialog = "none"
    /\ trakt_device_code = NULL
    /\ trakt_poll_timeout_id = 0
    /\ close_pending = FALSE
    /\ authLog = <<>>
    /\ closedConfig = NoFile

(***************************************************************************)
(* Search in the window: perform_search, clear_search (window.cpp)         *)
(***************************************************************************)
MaxSearches == 2
MaxSearchProviders == 2

SearchQueries == {"q1", "q2"}

\* catalogs_box: the kind of content, the search the "search-results" flow
\* belongs to (gen), the search that put the content there (by), the query
\* text shown, and the result sections, each named by its search
CatalogsView == [kind |-> "catalogs", gen |-> 0, by |-> 0, query |-> NULL, items |-> <<>>]
SearchView(gen, text) ==
    [kind |-> "search", gen |-> gen, by |-> gen, query |-> text, items |-> <<>>]
NoResultsView(gen, by, text) ==
    [kind |-> "no_results", gen |-> gen, by |-> by, query |-> text, items |-> <<>>]
Crashed == [kind |-> "crashed", gen |-> 0, by |-> 0, query |-> NULL, items |-> <<>>]

\* the search the window is in: 0 after clear_search
CurrentSearch == IF is_searching THEN search_seq ELSE 0

\* the done callback of perform_search, run for search `by`: without results
\* it clears the box and reads *current_search_query, a null pointer after
\* clear_search
DoneViews(by, has_results) ==
    IF has_results THEN {view}
    ELSE IF current_search_query = NULL
    THEN {Crashed, NoResultsView(CurrentSearch, by, "garbage")}
    ELSE {NoResultsView(CurrentSearch, by, current_search_query)}

\* the result callback, run for search `by`: the section goes before the
\* widget stored under "search-results", which is the flow of the latest
\* search, or a widget already destroyed when the box was cleared since
ResultViews(by) ==
    IF view.kind = "search"
    THEN {[view EXCEPT !.items = Append(@, by)]}
    ELSE {Crashed, [view EXCEPT !.items = Append(@, by)]}

SrchIdleRest == UNCHANGED <<regVars, resVars, fanVars, scrVars, hisVars, mrgVars, idVars, trkVars>>

\* perform_search(text) with n searchable catalogs
PerformSearch(text, n) ==
    /\ view.kind # "crashed"
    /\ search_seq < MaxSearches
    /\ search_seq' = search_seq + 1
    /\ current_search_query' = text
    /\ is_searching' = TRUE
    /\ IF n = 0
       THEN /\ view' = NoResultsView(search_seq + 1, search_seq + 1, text)
            /\ UNCHANGED searches
       ELSE /\ view' = SearchView(search_seq + 1, text)
            /\ searches' = Append(searches, [gen |-> search_seq + 1, query |-> text,
                                             pending |-> n, has_results |-> FALSE])
    /\ SrchIdleRest

\* clear_search: the back button, Escape, or an empty query
ClearSearch ==
    /\ view.kind # "crashed"
    /\ is_searching' = FALSE
    /\ current_search_query' = NULL
    /\ view' = CatalogsView
    /\ UNCHANGED <<search_seq, searches>>
    /\ SrchIdleRest

\* one provider of search k responds, with or without results
SearchResponse(k, found) ==
    /\ view.kind # "crashed"
    /\ k \in 1..Len(searches)
    /\ LET s     == searches[k]
           has   == s.has_results \/ found
           after == IF found THEN ResultViews(s.gen) ELSE {view}
       IN  /\ searches' = IF s.pending = 1 THEN RemoveAt(searches, k)
                          ELSE [searches EXCEPT ![k].pending = @ - 1,
                                                ![k].has_results = has]
           /\ \E v \in after :
                 IF v.kind = "crashed" \/ s.pending > 1 THEN view' = v
                 ELSE IF has THEN view' = v
                 ELSE view' \in DoneViews(s.gen, FALSE)
    /\ UNCHANGED <<current_search_query, is_searching, search_seq>>
    /\ SrchIdleRest

SrchInit ==
    /\ current_search_query = NULL
    /\ is_searching = FALSE
    /\ search_seq = 0
    /\ searches = <<>>
    /\ view = CatalogsView

MrgInit ==
    /\ section = "none"
    /\ local_items = <<>>
    /\ merged = <<>>
    /\ lastMerge = NoMerge

IdInit ==
    /\ id_segments = <<>>
    /\ stremio_id = <<>>
    /\ content_ids = NotParsed

ExtInit == MrgInit /\ IdInit /\ TrkInit /\ SrchInit

ScrInit ==
    /\ loaded_video = NULL
    /\ now = DebounceSeconds
    /\ authenticated \in BOOLEAN
    /\ current_meta_id = NULL
    /\ current_meta_type = NULL
    /\ current_video_id = NULL
    /\ loading = FALSE
    /\ switching = FALSE
    /\ player_is_playing = FALSE
    /\ player_position = 0
    /\ player_duration = 0
    /\ scrobble_started = FALSE
    /\ last_scrobble_time = 0
    /\ history_needs_save = FALSE
    /\ history_save_timeout_id = 0
    /\ lastEvent = NoEvent
    /\ lastSent = <<>>
    /\ lastWrite = <<>>
    /\ sentAt = [a \in Actions |-> Never]
    /\ prevPause = NoPause

\* ---- the manifest registry ----
InitRegistry == RegInit /\ ResInit /\ FanInit /\ ScrInit /\ HisInit /\ ExtInit /\ authenticated = FALSE

NextRegistry ==
    \/ \E url \in Urls : InstallAddon(url)
    \/ \E i \in 1..MaxInFlight, resp \in Responses, ts \in Timestamps :
          FetchManifestDone(i, resp, ts)
    \/ \E id \in AddonIds : UninstallAddon(id)
    \/ \E id \in AddonIds, enabled \in BOOLEAN : SetAddonEnabled(id, enabled)
    \/ \E id \in AddonIds, direction \in {-1, 0, 1} : MoveAddon(id, direction)
    \/ Load

SpecRegistry == InitRegistry /\ [][NextRegistry]_vars

\* ---- the capability resolver ----
InitResolver ==
    /\ installed_addons \in ResRegistries
    /\ disk = NoFile
    /\ fetches = <<>>
    /\ regLog = <<>>
    /\ change_callbacks = <<>>
    /\ ResInit /\ FanInit /\ ScrInit /\ HisInit /\ ExtInit /\ authenticated = FALSE

NextResolver ==
    \E resource \in QueryResources, type \in QueryTypes, id \in QueryIds :
        Query(resource, type, id)

SpecResolver == InitResolver /\ [][NextResolver]_vars

\* ---- the fan-out aggregator ----
InitFanout == RegInit /\ ResInit /\ FanInit /\ ScrInit /\ HisInit /\ ExtInit /\ authenticated = FALSE

NextFanout ==
    \/ \E n \in 0..MaxProviders : \E invalid \in SUBSET (1..n) :
          \/ FetchAllStreams(n, invalid)
          \/ FetchAllSubtitles(n, invalid)
          \/ Search(n, invalid)
    \/ \E i \in 1..MaxProviders, resp \in FanResponses : ProviderResponds(i, resp)

SpecFanout == InitFanout /\ [][NextFanout]_vars

\* ---- playback and scrobbling: the clock runs, positions are not reported ----
InitScrobble == RegInit /\ ResInit /\ FanInit /\ ScrInit /\ HisInit /\ ExtInit

NextScrobble ==
    \/ Tick
    \/ \E auth \in BOOLEAN : TraktChanged(auth)
    \/ \E v \in VideoIds, t \in MetaTypes : PlayEpisode(v, t)
    \/ FileLoaded
    \/ \E d \in Durations : Duration(d)
    \/ \E paused \in BOOLEAN : PauseChanged(paused)
    \/ StopVideo
    \/ EofReached
    \/ \E v \in VideoIds : PlayEpisodeByIndex(v)
    \/ EpisodeStreamPlay

SpecScrobble == InitScrobble /\ [][NextScrobble]_vars

\* ---- playback and history batching: positions are reported, tracking is off ----
InitHistory == RegInit /\ ResInit /\ FanInit /\ ScrInit /\ HisInit /\ ExtInit /\ authenticated = FALSE

NextHistory ==
    \/ \E v \in VideoIds, t \in MetaTypes : PlayEpisode(v, t)
    \/ FileLoaded
    \/ \E p \in Positions : TimePos(p)
    \/ \E d \in Durations : Duration(d)
    \/ StopVideo
    \/ EofReached
    \/ \E v \in VideoIds : PlayEpisodeByIndex(v)
    \/ EpisodeStreamPlay
    \/ OnHistorySaveTimeout

SpecHistory == InitHistory /\ [][NextHistory]_vars

\* ---- the registry with change observers: three bodies ----
ObserverResponses ==
    { [body |-> b, error |-> ""] : b \in {BodyA1, BodyB1, BodyNotObject} }
    \cup { [body |-> NoFile, error |-> "HTTP error: 404"] }

InitObservers == RegInit /\ ResInit /\ FanInit /\ ScrInit /\ HisInit /\ ExtInit /\ authenticated = FALSE

NextObservers ==
    \/ OnAddonsChanged
    \/ \E url \in Urls : InstallAddon(url)
    \/ \E i \in 1..MaxInFlight, resp \in ObserverResponses, ts \in Timestamps :
          FetchManifestDone(i, resp, ts)
    \/ \E id \in AddonIds : UninstallAddon(id)
    \/ \E id \in AddonIds, enabled \in BOOLEAN : SetAddonEnabled(id, enabled)
    \/ \E id \in AddonIds, direction \in {-1, 0, 1} : MoveAddon(id, direction)

SpecObservers == InitObservers /\ [][NextObservers]_vars

\* ---- the watch history store ----
InitStore == RegInit /\ ResInit /\ FanInit /\ ScrInit /\ HisInit /\ ExtInit /\ authenticated = FALSE

NextStore ==
    \/ Tick /\ now < DebounceSeconds + StoreHorizon
    \/ OnHistoryChanged
    \/ \E entry \in HistoryInputs : UpdateProgress(entry)
    \/ \E k \in HistoryKeys, p \in TickPositions : UpdatePosition(k.meta_id, k.video_id, p, 100)
    \/ \E k \in HistoryKeys : RemoveEntry(k.meta_id, k.video_id)
    \/ \E m \in HistoryMetaIds : RemoveSeriesHistory(m)

SpecStore == InitStore /\ [][NextStore]_vars

\* ---- the watch history store and its file, no observer registered ----
InitStoreFile == RegInit /\ ResInit /\ FanInit /\ ScrInit /\ HisInit /\ ExtInit /\ authenticated = FALSE

NextStoreFile ==
    \/ Tick /\ now < DebounceSeconds + StoreHorizon
    \/ \E entry \in HistoryInputs : UpdateProgress(entry)
    \/ \E k \in HistoryKeys, p \in TickPositions : UpdatePosition(k.meta_id, k.video_id, p, 100)
    \/ \E k \in HistoryKeys : RemoveEntry(k.meta_id, k.video_id)
    \/ ClearAll
    \/ HistorySave
    \/ HistoryLoad

SpecStoreFile == InitStoreFile /\ [][NextStoreFile]_vars

\* ---- reordering a registry of three addons ----
ReorderIds == {"a", "b", "c", "zz"}
Directions == {-2, -1, 0, 1, 2}

\* the list after BodyA1, BodyB1 and BodyC1 were installed from h1, in this order
InstalledThree ==
    LET url == [host |-> "h1", slash |-> 0, suffix |-> TRUE]
        bodies == <<BodyA1, BodyB1, BodyC1>>
    IN  [i \in 1..3 |-> [manifest     |-> parse_manifest(bodies[i], url)[1],
                         enabled      |-> TRUE,
                         order        |-> i - 1,
                         installed_at |-> "2026-01-01T00:00:00Z"]]

InitReorder ==
    /\ installed_addons = InstalledThree
    /\ disk = SaveDoc(InstalledThree)
    /\ fetches = <<>>
    /\ regLog = <<>>
    /\ change_callbacks = <<>>
    /\ ResInit /\ FanInit /\ ScrInit /\ HisInit /\ ExtInit /\ authenticated = FALSE

NextReorder ==
    \/ \E id \in ReorderIds : UninstallAddon(id)
    \/ \E id \in ReorderIds, enabled \in BOOLEAN : SetAddonEnabled(id, enabled)
    \/ \E id \in ReorderIds, direction \in Directions : MoveAddon(id, direction)
    \/ Load

SpecReorder == InitReorder /\ [][NextReorder]_vars

\* ---- the continue-watching section over a loaded history ----
LocalEntry(meta_id, meta_type, video_id, last_watched) ==
    [meta_id      |-> meta_id,
     meta_type    |-> meta_type,
     video_id     |-> video_id,
     title        |-> "Title",
     poster_url   |-> "poster.png",
     series_title |-> IF meta_type = "series" THEN Some("Series") ELSE None,
     season       |-> IF meta_type = "series" THEN Some(1) ELSE None,
     episode      |-> IF meta_type = "series" THEN Some(2) ELSE None,
     position     |-> 40,
     duration     |-> 100,
     last_watched |-> last_watched,
     binge_group  |-> None]

\* an episode, a movie, and the same episode id filed under another series
LocalEntries ==
    { LocalEntry("tt1", "series", "tt1:1:2", 3),
      LocalEntry("tt2", "movie", "tt2", 5),
      LocalEntry("tt9", "series", "tt1:1:2", 4) }

LocalStores ==
    { list \in UNION { [1..n -> LocalEntries] : n \in 0..Cardinality(LocalEntries) } :
         \A i, j \in 1..Len(list) : list[i] = list[j] => i = j }

InitMerge ==
    /\ RegInit /\ ResInit /\ FanInit /\ ScrInit /\ ExtInit
    /\ history_ \in LocalStores
    /\ history_disk = NoFile
    /\ history_callbacks = <<>>
    /\ histLog = <<>>

NextMerge ==
    \/ CreateContinueWatchingSection
    \/ \E reply \in PlaybackReplies : GetPlaybackDone(reply)

SpecMerge == InitMerge /\ [][NextMerge]_vars

\* ---- parse_stremio_id over identifiers of up to MaxSegments segments ----
MaxSegments == 4

SegmentPool ==
    { <<"t", "t", "1">>, <<"t", "m", "d", "b">>, <<"t", "v", "d", "b">>,
      <<"k", "i", "t", "s", "u">>, <<"i", "m", "d", "b">>,
      <<"7">>, <<"1", "2">>, <<"x">>, <<"2", "x">>, <<>> }

InitParse ==
    /\ RegInit /\ ResInit /\ FanInit /\ ScrInit /\ HisInit /\ MrgInit /\ TrkInit /\ SrchInit
    /\ authenticated = FALSE
    /\ id_segments \in UNION { [1..n -> SegmentPool] : n \in 0..MaxSegments }
    /\ stremio_id = JoinSegments(id_segments)
    /\ content_ids = NotParsed

NextParse == ParseStremioId

SpecParse == InitParse /\ [][NextParse]_vars

\* ---- device authorization: the dialog, the polling timer, the responses ----
UserNames == {None, Some("user")}

InitDeviceAuth ==
    RegInit /\ ResInit /\ FanInit /\ ScrInit /\ HisInit /\ ExtInit /\ authenticated = FALSE

NextDeviceAuth ==
    \/ LoginClicked
    \/ \E i \in 1..MaxRequests, ok \in BOOLEAN : DeviceCodeArrives(i, ok)
    \/ PollTimerFires
    \/ \E i \in 1..MaxRequests, resp \in TokenResponses : PollResponse(i, resp)
    \/ \E i \in 1..MaxRequests, settings \in UserNames : UserSettingsArrive(i, settings)
    \/ DialogClosed
    \/ DelayedClose

SpecDeviceAuth == InitDeviceAuth /\ [][NextDeviceAuth]_vars

\* ---- searches that overlap and are cleared ----
InitSearch ==
    RegInit /\ ResInit /\ FanInit /\ ScrInit /\ HisInit /\ ExtInit /\ authenticated = FALSE

NextSearch ==
    \/ \E text \in SearchQueries, n \in 0..MaxSearchProviders : PerformSearch(text, n)
    \/ ClearSearch
    \/ \E k \in 1..MaxSearches, found \in BOOLEAN : SearchResponse(k, found)

SpecSearch == InitSearch /\ [][NextSearch]_vars

(***************************************************************************)
(* Properties of the fan-out aggregator (SpecFanout)                       *)
(***************************************************************************)
Count(log, e) == Cardinality({k \in 1..Len(log) : log[k] = e})

AllResponded == \A i \in 1..fanN : fanState[i] = "responded"

HasItems(i) ==
    /\ fanState[i] = "responded"
    /\ fanOutcome[i].response # None
    /\ fanOutcome[i].response[1] # <<>>

\* C1: in a fan-out query with N >= 1 providers the completion callback has
\* fired once when all N providers have responded and not at all before, and
\* when it has fired it is the last callback of the query, whatever the order
\* of the responses and also when a request failed inside the issuing loop.
C1_DoneOnceAfterAll ==
    (fanKind # "none" /\ fanN >= 1) =>
        /\ Count(fanLog, DoneEvent) = (IF AllResponded THEN 1 ELSE 0)
        /\ AllResponded => fanLog[Len(fanLog)] = DoneEvent

\* a query of at least two providers has completed; one request failed while
\* the trakt_requests were being issued, one provider delivered items
C1_Witness ==
    /\ fanKind # "none" /\ fanN >= 2
    /\ AllResponded
    /\ \E i \in 1..fanN : fanOutcome[i] = InvalidUrlResponse
    /\ \E i \in 1..fanN : HasItems(i)
    /\ Count(fanLog, DoneEvent) = 1

\* C2: the per-provider callback has been invoked once for each provider that
\* responded with a non-empty result and never for any other provider, so a
\* completed query with K non-empty results has made exactly K invocations.
C2_ItemsExactlyK ==
    (fanKind # "none") =>
        /\ \A i \in 1..fanN :
              Count(fanLog, ItemEvent(i)) = (IF HasItems(i) THEN 1 ELSE 0)
        /\ Len(fanLog) - Count(fanLog, DoneEvent)
              = Cardinality({i \in 1..fanN : HasItems(i)})

\* a completed query in which one provider delivered items, one an empty
\* result and one an error
C2_Witness ==
    /\ fanKind # "none"
    /\ AllResponded
    /\ \E i, j, k \in 1..fanN :
          /\ HasItems(i)
          /\ fanOutcome[j].response = Some(<<>>)
          /\ fanOutcome[k].response = None
    /\ Len(fanLog) = 2

\* C15: a fan-out query that no provider matches (N = 0) has called the
\* completion callback exactly once when the call returns, has issued no
\* request and calls no per-provider callback, then or later.
C15_NoProviderCompletesAtOnce ==
    (fanKind # "none" /\ fanN = 0) =>
        /\ fanLog = <<DoneEvent>>
        /\ fanState = <<>>
        /\ pending = 0

\* a search over no searchable catalog has returned
C15_Witness ==
    /\ fanKind = "search"
    /\ fanN = 0
    /\ Count(fanLog, DoneEvent) = 1

Failed(i) ==
    /\ fanState[i] = "responded"
    /\ fanOutcome[i].response = None

\* C16: a provider that failed (transport error, HTTP status, unparseable
\* body, rejected URL) contributes no callback at all; every callback the
\* caller gets is the completion or the items of a provider that delivered
\* some, and a query in which providers failed still ends with each
\* delivering provider's items followed by one completion callback.
C16_FailuresSwallowed ==
    /\ \A k \in 1..Len(fanLog) :
          \/ fanLog[k] = DoneEvent
          \/ fanLog[k].provider \in 1..fanN /\ ~Failed(fanLog[k].provider)
    /\ (fanKind # "none" /\ AllResponded /\ \E i \in 1..fanN : Failed(i)) =>
          /\ fanLog # <<>>
          /\ \A k \in 1..Len(fanLog) : fanLog[k] = DoneEvent <=> k = Len(fanLog)
          /\ \A i \in 1..fanN : HasItems(i) => \E k \in 1..Len(fanLog) : fanLog[k] = ItemEvent(i)

\* a completed query of three providers: a transport error, an unparseable
\* body and one provider whose items were delivered
C16_Witness ==
    /\ fanKind # "none" /\ fanN = 3
    /\ AllResponded
    /\ \E i, j, k \in 1..fanN :
          /\ fanOutcome[i].error = "Request failed: timed out"
          /\ fanOutcome[j].error = "Failed to parse response"
          /\ HasItems(k)
    /\ fanLog[Len(fanLog)] = DoneEvent
    /\ Len(fanLog) = 2

(***************************************************************************)
(* Properties of the capability resolver (SpecResolver)                    *)
(***************************************************************************)
\* the type check and the identifier check of one definition, on that
\* definition alone
DefinitionMatches(manifest, res, type, id) ==
    /\ IF res.types # <<>> THEN Contains(res.types, type)
       ELSE IF manifest.types # <<>> THEN Contains(manifest.types, type)
       ELSE TRUE
    /\ IF id = <<>> THEN TRUE
       ELSE IF res.id_prefixes # <<>> THEN AnyPrefix(res.id_prefixes, id)
       ELSE IF manifest.id_prefixes # <<>> THEN AnyPrefix(manifest.id_prefixes, id)
       ELSE TRUE

ServesPerDefinition(addon, resource, type, id) ==
    /\ addon.enabled
    /\ \E k \in 1..Len(addon.manifest.resources) :
          /\ addon.manifest.resources[k].name = resource
          /\ DefinitionMatches(addon.manifest, addon.manifest.resources[k], type, id)

\* C3: get_addons_for_resource returns, in registry order and each at most
\* once, exactly the enabled providers that have a definition named R whose
\* type check and identifier check both hold on that definition alone, also
\* when a manifest lists several definitions named R.
C3_ExactlyMatchingProviders ==
    (query # NoQuery) =>
        resolved = SelectSeq(installed_addons,
                             LAMBDA a : ServesPerDefinition(a, query.resource,
                                                            query.type, query.id))

(***************************************************************************)
(* Properties of the manifest registry (SpecRegistry)                      *)
(***************************************************************************)
UniqueIds ==
    \A i, j \in 1..Len(installed_addons) :
        installed_addons[i].manifest.id = installed_addons[j].manifest.id => i = j

InstallSucceeded(log) == log # <<>> /\ log[Len(log)] = Callback(TRUE, "")

\* an install completion for an id that is installed keeps the list as long as
\* it was and every entry's id, order, enabled flag and installed_at
InstallKeepsEntries ==
    (InstallSucceeded(regLog') /\ regLog'[1].ev = "replace") =>
        /\ Len(installed_addons') = Len(installed_addons)
        /\ \A i \in 1..Len(installed_addons) :
              /\ installed_addons'[i].manifest.id = installed_addons[i].manifest.id
              /\ installed_addons'[i].order = installed_addons[i].order
              /\ installed_addons'[i].enabled = installed_addons[i].enabled
              /\ installed_addons'[i].installed_at = installed_addons[i].installed_at

\* C4: installing a manifest whose id is installed creates no second entry and
\* keeps the existing entry's order and enabled flag, also when the id became
\* installed while this install's fetch was in flight; from the empty registry
\* every manifest id appears at most once after any sequence of operations.
C4_InstallNeverDuplicates == []UniqueIds /\ [][InstallKeepsEntries]_vars

\* the second of two installs of one id that were in flight together has
\* completed: it replaced the manifest of the entry the first one added, which
\* had been disabled in between
C4_Witness ==
    /\ InstallSucceeded(regLog)
    /\ regLog[1] = Replaced(TRUE)
    /\ \E i \in 1..Len(installed_addons) :
          /\ installed_addons[i].manifest.id = "a"
          /\ installed_addons[i].manifest.version = "2.0"
          /\ installed_addons[i].installed_at = "2026-01-01T00:00:00Z"
          /\ ~installed_addons[i].enabled

\* the fields of a catalog, a manifest and a registry entry the round trip is
\* about
CatalogFields(cat) ==
    <<cat.type, cat.id, cat.name, cat.genres, cat.extra_supported, cat.extra_required>>

ManifestFields(m) ==
    <<m.id, m.version, m.name, m.description, m.logo, m.background, m.types,
      m.id_prefixes, m.transport_url, m.resources,
      [k \in 1..Len(m.catalogs) |-> CatalogFields(m.catalogs[k])]>>

EntryFields(addon) ==
    <<addon.enabled, addon.order, addon.installed_at, ManifestFields(addon.manifest)>>

\* C5: what load() reads back from the file save() wrote is the saved list,
\* sorted by order, with every entry's enabled flag, installed_at and manifest
\* (catalogs with genres, extraSupported and extraRequired included) unchanged.
C5_SaveLoadRoundTrip ==
    (\E k \in 1..Len(regLog) : regLog[k] = Ev("save")) =>
        /\ Len(LoadDoc(disk)) = Len(installed_addons)
        /\ \A i \in 1..Len(installed_addons) :
              EntryFields(LoadDoc(disk)[i]) = EntryFields(installed_addons[i])

(***************************************************************************)
(* Properties of playback scrobbling (SpecScrobble)                        *)
(***************************************************************************)
Resolvable(video_id) ==
    IF video_id = NULL THEN FALSE ELSE has_id(parse_stremio_id(video_id))

SentActions == [k \in 1..Len(lastSent) |-> lastSent[k].action]

PauseOrResume(name) == name \in {"pause_trigger", "resume_trigger"}

StopEvent(name) == name \in {"stop_video", "eof_reached", "play_episode_by_index"}

\* the action a pause or resume trigger asks for
TriggerAction(name) == IF name = "pause_trigger" THEN "pause" ELSE "start"

\* C6: a file-loaded event that arrives while scrobbling is not started sends
\* exactly one start and sets scrobble_started when tracking is authenticated
\* and the video id resolves, however recently another request was sent; when
\* the id resolves to nothing it sends nothing and leaves scrobble_started false.
C6_FileLoadedStarts ==
    (lastEvent.name = "file_loaded" /\ ~lastEvent.started) =>
        /\ (lastEvent.auth /\ Resolvable(lastEvent.video_id)) =>
              (SentActions = <<"start">> /\ scrobble_started)
        /\ ~Resolvable(lastEvent.video_id) =>
              (lastSent = <<>> /\ ~scrobble_started)

\* C7 as stated: a pause or resume trigger is skipped only when the same
\* action was sent less than 5 seconds earlier.
C7_SkippedOnlyAfterSameAction ==
    (/\ PauseOrResume(lastEvent.name)
     /\ lastEvent.auth /\ Resolvable(lastEvent.video_id)
     /\ lastSent = <<>>)
        => Recent(sentAt[TriggerAction(lastEvent.name)], now, DebounceSeconds)

\* a step that is a pause or resume trigger with tracking authenticated and a
\* resolvable id: it is skipped exactly when last_scrobble_time is less than 5
\* seconds old, and so whenever any request was sent less than 5 seconds ago
PauseStepSharedDebounce ==
    (/\ PauseOrResume(lastEvent'.name)
     /\ lastEvent'.auth /\ Resolvable(lastEvent'.video_id))
        => /\ (lastSent' = <<>>) <=> (now - last_scrobble_time < DebounceSeconds)
           /\ (\E a \in Actions : Recent(sentAt[a], now, DebounceSeconds))
                 => lastSent' = <<>>
           /\ lastSent' # <<>> => SentActions' = <<TriggerAction(lastEvent'.name)>>

\* C7 (amended): the debounce of pause and resume is shared by all actions: a
\* trigger is skipped exactly when fewer than 5 seconds have passed since the
\* last trigger of any action (start, resume, pause or stop) passed the
\* debounce check, hence whenever any request was sent less than 5 seconds ago.
C7_SharedDebounce == [][PauseStepSharedDebounce]_vars

\* a pause trigger was skipped although no pause was sent in the last 5
\* seconds: a start was
C7_Witness ==
    /\ lastEvent.name = "pause_trigger"
    /\ lastEvent.auth /\ Resolvable(lastEvent.video_id)
    /\ lastSent = <<>>
    /\ Recent(sentAt["start"], now, DebounceSeconds)
    /\ sentAt["pause"] = Never

\* the last step was the second of two pause triggers 1 second apart, both with
\* tracking authenticated and a resolvable id
TwoPauses ==
    /\ lastEvent.name = "pause_trigger"
    /\ Resolvable(lastEvent.video_id)
    /\ Len(prevPause) = 2
    /\ prevPause[2].at = now /\ prevPause[1].at = now - 1
    /\ prevPause[1].auth /\ prevPause[2].auth

C9_StopNeverDebounced ==
    (/\ StopEvent(lastEvent.name)
     /\ lastEvent.started /\ lastEvent.auth /\ Resolvable(lastEvent.video_id))
        => SentActions = <<"stop">>

\* the video was stopped in the second in which the start was sent
C9_Witness ==
    /\ lastEvent.name = "stop_video"
    /\ lastEvent.started /\ lastEvent.auth /\ Resolvable(lastEvent.video_id)
    /\ sentAt["start"] = <<now>>
    /\ SentActions = <<"stop">>

\* C10: a started session is ended by exactly one stop, which clears
\* scrobble_started; end of stream and the stop-video it causes send one stop
\* together; no pause or resume is sent while scrobble_started is clear; and
\* the stop of a natural end of stream carries progress 100.
C10_OneStopWithFullProgress ==
    /\ (/\ StopEvent(lastEvent.name)
        /\ lastEvent.started /\ lastEvent.auth /\ Resolvable(lastEvent.video_id))
          => (SentActions = <<"stop">> /\ ~scrobble_started)
    /\ StopEvent(lastEvent.name) => (Len(lastSent) <= 1 /\ ~scrobble_started)
    /\ PauseOrResume(lastEvent.name) => (lastEvent.started /\ scrobble_started)
    /\ (lastEvent.name = "eof_reached" /\ lastSent # <<>>)
          => lastSent[1].progress = 100

(***************************************************************************)
(* Properties of the registry's failure path, observers and ordering       *)
(***************************************************************************)
\* the manifest request for url ended in a transport or HTTP error, or its
\* body is no manifest
InstallFailure(url, resp) ==
    resp.error # "" \/ parse_manifest(resp.body, url) = None

\* the step called the install callback once, with success = false and a
\* text, and did nothing else
OnlyFailureReported ==
    /\ Len(regLog') = 1
    /\ regLog'[1].ev = "callback"
    /\ ~regLog'[1].success
    /\ regLog'[1].error # ""
    /\ installed_addons' = installed_addons
    /\ disk' = disk

FailedInstallStep ==
    /\ Len(fetches') < Len(fetches) =>
          \A i \in 1..Len(fetches), resp \in Responses, ts \in Timestamps :
              (InstallFailure(fetches[i].url, resp) /\ FetchManifestDone(i, resp, ts))
                  => OnlyFailureReported
    /\ fetches' = fetches =>
          \A url \in Urls :
              (~ValidUrl(ManifestUrl(url)) /\ InstallAddon(url)) => OnlyFailureReported

\* C11: an install whose manifest fetch or parse fails calls the install
\* callback exactly once with success = false and a non-empty description,
\* leaves the list and the file as they were and calls no observer.
C11_FailedInstallChangesNothing == [][FailedInstallStep]_vars

\* a failed install happened on a registry that holds an addon, a file and
\* two observers
C11_Witness ==
    /\ regLog = <<Callback(FALSE, "Failed to parse manifest")>>
    /\ Len(installed_addons) = 1
    /\ disk # NoFile
    /\ Len(change_callbacks) = 2

Succeeded(log) ==
    /\ log # <<>>
    /\ \/ log[Len(log)] = Callback(TRUE, "")
       \/ log[Len(log)].ev = "return" /\ log[Len(log)].value

Where(log, e) == {k \in 1..Len(log) : log[k] = e}

OrderIsIndex ==
    \A i \in 1..Len(installed_addons) : installed_addons[i].order = i - 1

WithoutOrder(addons) == [i \in 1..Len(addons) |-> [addons[i] EXCEPT !.order = 0]]

UninstallKeepsOrder ==
    Len(installed_addons') < Len(installed_addons) =>
        \A id \in AddonIds :
            (is_installed(id) /\ UninstallAddon(id)) =>
                WithoutOrder(installed_addons') =
                    RemoveAt(WithoutOrder(installed_addons), FindAddon(installed_addons, id))

Neighbour(index, direction, size) ==
    IF index = 0 \/ direction = 0 THEN 0
    ELSE LET n == IF direction < 0 THEN index - 1 ELSE index + 1
         IN  IF n \in 1..size THEN n ELSE 0

MoveEffect(id, direction) ==
    LET old == WithoutOrder(installed_addons)
        new == WithoutOrder(installed_addons')
        it  == FindAddon(installed_addons, id)
        nb  == Neighbour(it, direction, Len(installed_addons))
    IN  IF nb = 0
        THEN installed_addons' = installed_addons /\ disk' = disk
        ELSE /\ Len(new) = Len(old)
             /\ new[nb] = old[it]
             /\ new[it] = old[nb]
             /\ \A k \in 1..Len(old) :
                   k \notin {it, nb} => installed_addons'[k] = installed_addons[k]

MoveStep ==
    \A id \in ReorderIds, direction \in Directions :
        MoveAddon(id, direction) => MoveEffect(id, direction)

\* C14: move exchanges the addon with its neighbour in the given direction
\* and leaves every other addon as it was; at a boundary, for direction 0 and
\* for an unknown id the list, the orders and the file stay unchanged.
C14_MoveSwapsNeighbours == [][MoveStep]_vars

\* a move succeeded in a list of three
C14_Witness ==
    /\ regLog # <<>>
    /\ regLog[Len(regLog)] = Return("move_addon", TRUE)
    /\ Len(installed_addons) = 3
    /\ installed_addons[1].manifest.id = "b"

(***************************************************************************)
(* Properties of the watch history store (SpecStore)                       *)
(***************************************************************************)
HasKey(history, meta_id, video_id) ==
    \E i \in 1..Len(history) :
        history[i].meta_id = meta_id /\ history[i].video_id = video_id

WithoutKey(history, meta_id, video_id) ==
    SelectSeq(history, LAMBDA e : ~(e.meta_id = meta_id /\ e.video_id = video_id))

Smaller(a, b) == IF a < b THEN a ELSE b

\* update_progress of a key that is not stored: the entry comes first, the
\* size grows by one up to the limit, and from a full store the entry that
\* disappears has the smallest last_watched
InsertStep ==
    \A entry \in HistoryInputs :
        (~HasKey(history_, entry.meta_id, entry.video_id) /\ UpdateProgress(entry)) =>
            /\ history_'[1] = [entry EXCEPT !.last_watched = now]
            /\ Len(history_') = Smaller(Len(history_) + 1, HistoryLimit)
            /\ Len(history_) = HistoryLimit =>
                  \E i \in 1..Len(history_) :
                      /\ Tail(history_') = RemoveAt(history_, i)
                      /\ \A j \in 1..Len(history_) :
                            history_[i].last_watched <= history_[j].last_watched

\* C17: an upsert of a new key puts the entry first and makes the size
\* min(old size + 1, limit); from a full store it evicts the entry with the
\* smallest last_watched; the store never exceeds the limit.
C17_InsertEvictsOldest == [](Len(history_) <= HistoryLimit) /\ [][InsertStep]_vars

UniqueKeys ==
    \A i, j \in 1..Len(history_) :
        (history_[i].meta_id = history_[j].meta_id
            /\ history_[i].video_id = history_[j].video_id) => i = j

ReplaceStep ==
    \A entry \in HistoryInputs :
        (HasKey(history_, entry.meta_id, entry.video_id) /\ UpdateProgress(entry)) =>
            /\ history_'[1] = [entry EXCEPT !.last_watched = now]
            /\ Len(history_') = Len(history_)
            /\ Tail(history_') = WithoutKey(history_, entry.meta_id, entry.video_id)

C19_ReadsSortedByRecency ==
    /\ NonIncreasing(get_all_history(history_, HistoryLimit))
    /\ NonIncreasing(get_continue_watching(history_, HistoryLimit))
    /\ \A m \in HistoryMetaIds :
          LET latest == get_latest_for_series(history_, m)
          IN  latest # None =>
                  \A i \in 1..Len(history_) :
                      history_[i].meta_id = m =>
                          latest[1].last_watched >= history_[i].last_watched

Progressless(e) == [e EXCEPT !.position = 0, !.duration = 0, !.last_watched = 0]

PositionStep ==
    \A k \in HistoryKeys, p \in TickPositions :
        UpdatePosition(k.meta_id, k.video_id, p, 100) =>
            /\ history_disk' = history_disk
            /\ histLog' = <<>>
            /\ Len(history_') = Len(history_)
            /\ \A i \in 1..Len(history_) :
                  IF history_[i].meta_id = k.meta_id /\ history_[i].video_id = k.video_id
                  THEN /\ Progressless(history_'[i]) = Progressless(history_[i])
                       /\ history_'[i].position = p
                       /\ history_'[i].duration = 100
                       /\ history_'[i].last_watched = now
                  ELSE history_'[i] = history_[i]

\* C20: update_position of a stored key changes that entry's position,
\* duration and last_watched and nothing else: no entry moves, no other
\* entry changes, the file is not written and no observer is called; for a
\* key that is not stored the store stays as it is.
C20_PositionTouchesOneEntry == [][PositionStep]_vars

\* update_position ran on an entry behind the front one, with an observer
\* registered: the entry stayed in place with the newer time, the file still
\* holds the older state
C20_Witness ==
    /\ Len(history_) = 2
    /\ history_[2].last_watched > history_[1].last_watched
    /\ history_[2].position \in TickPositions
    /\ Len(history_callbacks) >= 1
    /\ histLog = <<>>
    /\ history_disk # SaveHistoryDoc(history_)

ContinueLimits == 0..HistoryLimit

\* the list holds resumable entries of the store, at most `limit`, and one
\* per series
ContinueShape(cw, limit) ==
    /\ Len(cw) <= limit
    /\ \A i \in 1..Len(cw) :
          /\ is_resumable(cw[i])
          /\ \E k \in 1..Len(history_) : history_[k] = cw[i]
    /\ \A i, j \in 1..Len(cw) :
          (cw[i].meta_type = "series" /\ cw[i].meta_id = cw[j].meta_id) => i = j

\* C21: get_continue_watching(limit) returns only resumable entries, at most
\* limit of them, at most one per series, and the one it keeps for a series
\* is the resumable episode of that series with the greatest last_watched.
C21_ContinueWatchingLatestPerSeries ==
    \A limit \in ContinueLimits :
        LET cw == get_continue_watching(history_, limit)
        IN  /\ ContinueShape(cw, limit)
            /\ \A i \in 1..Len(cw) :
                  cw[i].meta_type = "series" =>
                      \A k \in 1..Len(history_) :
                          (history_[k].meta_id = cw[i].meta_id /\ is_resumable(history_[k]))
                              => cw[i].last_watched >= history_[k].last_watched

(***************************************************************************)
(* Properties of the continue-watching section (SpecMerge)                 *)
(***************************************************************************)
Occurrences(list, e) == Cardinality({ i \in 1..Len(list) : list[i] = e })

Merged == section = "shown" /\ lastMerge # NoMerge

DistinctVideoIds(list) ==
    \A i, j \in 1..Len(list) : list[i].video_id = list[j].video_id => i = j

\* the original sentence of C22: no two entries of the merged list have the
\* same video id, and the list is sorted by last_watched, newest first
C22_MergedVideoIdsUnique ==
    Merged => DistinctVideoIds(merged) /\ NonIncreasing(merged)

\* C22: the merged list is the local entries, all kept, plus the remote
\* records whose derived video id is neither a local one nor that of a remote
\* record added before it, sorted by last_watched descending, at most 15; two
\* of its entries share a video id only when two local entries do.
C22_MergeDropsRemoteDuplicates ==
    Merged =>
        /\ \A e \in { merged[i] : i \in 1..Len(merged) }
                 \cup { lastMerge.local[i] : i \in 1..Len(lastMerge.local) }
                 \cup { lastMerge.added[i] : i \in 1..Len(lastMerge.added) } :
              Occurrences(merged, e)
                  = Occurrences(lastMerge.local, e) + Occurrences(lastMerge.added, e)
        /\ VideoIdsOf(lastMerge.added) \cap VideoIdsOf(lastMerge.local) = {}
        /\ DistinctVideoIds(lastMerge.added)
        /\ \A i \in 1..Len(lastMerge.received) :
              lastMerge.received[i].video_id
                  \in VideoIdsOf(lastMerge.local) \cup VideoIdsOf(lastMerge.added)
        /\ NonIncreasing(merged)
        /\ Len(merged) <= SectionLimit
        /\ (~DistinctVideoIds(merged) => ~DistinctVideoIds(lastMerge.local))

\* a merge that kept two local entries, dropped a remote record whose video
\* id was local, and added another
C22_Witness ==
    /\ Merged
    /\ Len(lastMerge.local) >= 2
    /\ Len(lastMerge.added) >= 1
    /\ Len(lastMerge.added) < Len(lastMerge.received)
    /\ \E i \in 1..Len(lastMerge.received) :
          lastMerge.received[i].video_id \in VideoIdsOf(lastMerge.local)

(***************************************************************************)
(* Properties of the history batching (SpecHistory)                        *)
(***************************************************************************)
SessionStop == StopVideo \/ EofReached

\* a tick marks the flag and writes nothing; a write comes from the timer
\* firing with the flag set or from a session stop; a stop cancels the timer
TicksBatchedStep ==
    /\ (\E p \in Positions : TimePos(p)) =>
          lastWrite' = <<>> /\ history_needs_save' /\ history_save_timeout_id' # 0
    /\ lastWrite' # <<>> =>
          \/ OnHistorySaveTimeout /\ history_needs_save /\ history_save_timeout_id # 0
          \/ SessionStop /\ history_needs_save
    /\ SessionStop => history_save_timeout_id' = 0

\* a stop commits a dirty position and leaves the flag clear
StopCommitsStep ==
    SessionStop => /\ ~history_needs_save'
                   /\ history_needs_save => lastWrite' # <<>>

\* C23: progress ticks only mark the dirty flag and never write the history;
\* a write happens only when the periodic timer fires with the flag set or at
\* session stop; and after a session stop the timer is cancelled, a dirty
\* position has been committed and the flag is clear.
C23_TicksBatchedStopCommits == [][TicksBatchedStep /\ StopCommitsStep]_vars

\* the part that holds in every step: ticks, writes and the timer
TicksBatchedHolds == [][TicksBatchedStep]_vars

(***************************************************************************)
(* Properties of parse_stremio_id (SpecParse)                              *)
(***************************************************************************)
Parsed == content_ids # NotParsed

\* the segments that are not empty, in order
Segments == SelectSeq(id_segments, LAMBDA seg : seg # <<>>)

IsDecimal(seg) == seg # <<>> /\ \A i \in 1..Len(seg) : IsDigit(seg[i])

RECURSIVE Decimal(_)
Decimal(seg) ==
    IF seg = <<>> THEN 0
    ELSE 10 * Decimal(SubSeq(seg, 1, Len(seg) - 1)) + DigitValue(seg[Len(seg)])

HasTtPrefix(seg) == Len(seg) >= 2 /\ seg[1] = "t" /\ seg[2] = "t"

IsImdbId(seg) == HasTtPrefix(seg) /\ Len(seg) > 2 /\ IsDecimal(SubSeq(seg, 3, Len(seg)))

NumericSources ==
    { [name |-> <<"t", "m", "d", "b">>, field |-> "tmdb"],
      [name |-> <<"t", "v", "d", "b">>, field |-> "tvdb"],
      [name |-> <<"k", "i", "t", "s", "u">>, field |-> "kitsu"] }

IdFields == {"imdb", "tmdb", "tvdb", "kitsu"}

OnlyField(ids, field, value) ==
    /\ ids[field] = Some(value)
    /\ \A other \in IdFields \ {field} : ids[other] = None

NoEpisode(ids) == ~ids.is_episode /\ ids.season = 0 /\ ids.episode = 0

IsEpisode(ids, season, episode) ==
    ids.is_episode /\ ids.season = Decimal(season) /\ ids.episode = Decimal(episode)

\* C24: for every canonical identifier (tt-id, tt-id:s:e, source:n,
\* source:n:s:e with decimal n, s, e; empty segments anywhere) exactly the
\* matching id field is set, to the whole first segment or to the integer of
\* the second, is_episode with season and episode is set exactly when the
\* coordinates are present, and an unrecognised first segment sets no id.
C24_CanonicalIdsParsed ==
    Parsed =>
        LET segs == Segments
            n    == Len(segs)
        IN  /\ (n \in {1, 3} /\ IsImdbId(segs[1])
                   /\ \A i \in 2..n : IsDecimal(segs[i])) =>
                  /\ OnlyField(content_ids, "imdb", segs[1])
                  /\ IF n = 3 THEN IsEpisode(content_ids, segs[2], segs[3])
                     ELSE NoEpisode(content_ids)
            /\ \A src \in NumericSources :
                  (n \in {2, 4} /\ segs[1] = src.name
                      /\ \A i \in 2..n : IsDecimal(segs[i])) =>
                     /\ OnlyField(content_ids, src.field, Decimal(segs[2]))
                     /\ IF n = 4 THEN IsEpisode(content_ids, segs[3], segs[4])
                        ELSE NoEpisode(content_ids)
            /\ (n >= 1 /\ ~HasTtPrefix(segs[1])
                   /\ \A src \in NumericSources : segs[1] # src.name) =>
                  ~has_id(content_ids) /\ NoEpisode(content_ids)

\* "tt1::7:12" parsed: an empty segment is skipped and the coordinates found
C24_Witness ==
    /\ Parsed
    /\ Len(id_segments) > Len(Segments)
    /\ Len(Segments) = 3
    /\ content_ids.imdb = Some(<<"t", "t", "1">>)
    /\ content_ids.is_episode
    /\ content_ids.season = 7 /\ content_ids.episode = 12

\* "kitsu:12:7:12" parsed: a numeric source with coordinates
NumericEpisodeParsed ==
    /\ Parsed
    /\ content_ids.kitsu = Some(12)
    /\ content_ids.is_episode

\* segs has coordinates at positions k and k + 1, and one of them is not a
\* decimal integer
BadCoordinates(segs, k) ==
    /\ Len(segs) = k + 1
    /\ ~IsDecimal(segs[k]) \/ ~IsDecimal(segs[k + 1])

\* C25: when the season or the episode segment is not an integer the result
\* still carries the primary id, is_episode is false and season and episode
\* are both 0, whichever of the two segments failed to parse.
C25_BadCoordinatesLeaveDefaults ==
    Parsed =>
        LET segs == Segments
        IN  /\ (Len(segs) >= 1 /\ IsImdbId(segs[1]) /\ BadCoordinates(segs, 2)) =>
                  OnlyField(content_ids, "imdb", segs[1]) /\ NoEpisode(content_ids)
            /\ \A src \in NumericSources :
                  (Len(segs) >= 2 /\ segs[1] = src.name /\ IsDecimal(segs[2])
                      /\ BadCoordinates(segs, 3)) =>
                     /\ OnlyField(content_ids, src.field, Decimal(segs[2]))
                     /\ NoEpisode(content_ids)

\* the same with season and episode left out: the id is kept and is_episode
\* is false whenever a coordinate has no leading integer at all
UnparsedCoordinatesKeepId ==
    Parsed =>
        LET segs == Segments
        IN  (Len(segs) = 3 /\ IsImdbId(segs[1])
                /\ (stoi(segs[2]) = None \/ stoi(segs[3]) = None)) =>
               OnlyField(content_ids, "imdb", segs[1]) /\ ~content_ids.is_episode

(***************************************************************************)
(* Properties of the device authorization (SpecDeviceAuth)                 *)
(***************************************************************************)
PollCallbacks == SelectSeq(authLog, LAMBDA e : e.ev = "poll_callback")

TokenFields == {"access_token", "refresh_token", "expires_at", "enabled"}

SameTokens(a, b) == \A f \in TokenFields : a[f] = b[f]

HasTokenBody(resp) ==
    /\ resp.status = 200
    /\ resp.body # NotJson
    /\ resp.body.t = "obj"
    /\ {"access_token", "refresh_token", "expires_in"} \subseteq DOMAIN resp.body.v

\* what one device-token response does, by status
PollStep(resp) ==
    /\ Len(SelectSeq(authLog', LAMBDA e : e.ev = "poll_callback")) = 1
    /\ LET cb == authLog'[Len(authLog')]
       IN  /\ cb.ev = "poll_callback"
           /\ resp.status = 400 =>
                 /\ ~cb.success /\ cb.pending
                 /\ config_' = config_ /\ trakt_disk' = trakt_disk
           /\ resp.status \in {404, 409, 410, 418} =>
                 /\ ~cb.success /\ ~cb.pending
                 /\ config_' = config_ /\ trakt_disk' = trakt_disk
           /\ HasTokenBody(resp) =>
                 /\ cb.success /\ ~cb.pending
                 /\ config_'.access_token = resp.body.v["access_token"].v
                 /\ config_'.refresh_token = resp.body.v["refresh_token"].v
                 /\ config_'.expires_at =
                        resp.body.v["expires_in"].v
                            + (IF HasMember(resp.body.v, "created_at")
                               THEN resp.body.v["created_at"].v ELSE now)
                 /\ config_'.enabled
                 /\ trakt_disk' = SaveTraktConfig(config_')
                 /\ authLog' = <<Ev("save"), Ev("notify_change"), cb>>

\* C26: a device-token poll invokes its callback exactly once; status 400
\* reports pending and 404, 409, 410, 418 report failure, both leaving the
\* configuration and its file as they were; status 200 with a token body
\* stores the tokens and the expiry, sets enabled, saves, notifies the
\* observers and then reports success.
C26_PollMapsStatus ==
    [][ Len(trakt_requests') <= Len(trakt_requests) =>
           \A i \in 1..MaxRequests, resp \in TokenResponses :
               PollResponse(i, resp) => PollStep(resp) ]_vars

\* a poll has just stored the tokens and reported success
C26_Witness ==
    /\ PollCallbacks # <<>>
    /\ PollCallbacks[1].success
    /\ config_.access_token = "A" /\ config_.enabled
    /\ trakt_disk = SaveTraktConfig(config_)

\* a poll has just reported pending
PendingReported == PollCallbacks # <<>> /\ PollCallbacks[1].pending

\* C28: once the dialog is closed, with the polling timer removed and the
\* device code discarded, a device-token response that arrives does not
\* change the access token, the refresh token, the expiry or enabled.
C28_NoChangeAfterClose ==
    [][ (trakt_auth_dialog = "closed" /\ trakt_device_code = NULL
            /\ trakt_poll_timeout_id = 0 /\ Len(trakt_requests') <= Len(trakt_requests)) =>
           \A i \in 1..MaxRequests, resp \in TokenResponses :
               PollResponse(i, resp) => SameTokens(config_', closedConfig) ]_vars

(***************************************************************************)
(* Properties of the search view (SpecSearch)                              *)
(***************************************************************************)
\* C27: results and the completion of a search that was superseded or
\* cleared are ignored: every result section in the view belongs to the
\* search the view was built for, a "no results" page is put there only by
\* the current search and shows its query, and the cleared query is never
\* read.
C27_StaleSearchIgnored ==
    /\ view.kind # "crashed"
    /\ \A i \in 1..Len(view.items) : view.kind = "search" /\ view.items[i] = view.gen
    /\ view.kind = "no_results" =>
          /\ view.by = view.gen
          /\ view.query = current_search_query

\* the same for a single search that is neither superseded nor cleared
OneSearchShown ==
    (search_seq = 1 /\ is_searching) => C27_StaleSearchIgnored

(***************************************************************************)
(* Watch-history writes across an episode switch.                          *)
(***************************************************************************)

\* The entry a step writes, if any: the write log changes to a new record.
WrittenEntries == {lastWrite'[i] : i \in 1..Len(lastWrite')}

\* C29: every watch-history entry that a periodic or final save writes is
\* stored under the videoId of the stream the player had loaded when the
\* position and duration were reported, so that after play_episode_by_index
\* the previous episode's position is never stored under the new videoId.
C29_WritesPairObservedVideo ==
    [][ (lastWrite' # lastWrite)
            => \A entry \in WrittenEntries : entry.video_id = loaded_video ]_vars

\* Outside a pending episode switch the written videoId is the loaded one.
WritesOutsideSwitchPaired ==
    [][ (lastWrite' # lastWrite /\ ~switching)
            => \A entry \in WrittenEntries : entry.video_id = loaded_video ]_vars

\* A save has been written while an episode switch was pending.
WriteDuringSwitch ==
    /\ switching
    /\ lastWrite # <<>>
    /\ lastWrite[1].video_id = current_video_id
    /\ loaded_video # NULL /\ loaded_video # current_video_id

(***************************************************************************)
(* Searchable catalogs across save() and load()                            *)
(***************************************************************************)
\* a searchable catalog named by its provider and by its own type and id
SearchableKeys(addons) ==
    LET pairs == get_searchable_catalogs(addons)
    IN  { <<pairs[k][1].id, pairs[k][2].type, pairs[k][2].id>> : k \in 1..Len(pairs) }

Saved == \E k \in 1..Len(regLog) : regLog[k] = Ev("save")

\* C30: the searchable catalogs of the registry are the same before and after
\* save() followed by load(): what get_searchable_catalogs() returns for the
\* list load() reads back names the catalogs it returned for the saved list.
C30_SearchableSurvivesReload ==
    Saved => SearchableKeys(LoadDoc(disk)) = SearchableKeys(installed_addons)

\* The providers that are enabled and serve catalogs are the same after reload.
CatalogProviders(addons) ==
    { addons[k].manifest.id : k \in
        { j \in 1..Len(addons) :
            addons[j].enabled /\ has_resource(addons[j].manifest, "catalog") } }

CatalogProvidersSurviveReload ==
    Saved => CatalogProviders(LoadDoc(disk)) = CatalogProviders(installed_addons)

\* A registry with a searchable catalog has been saved.
SearchableSaved == Saved /\ SearchableKeys(installed_addons) # {}

====
